---------------------------- MODULE Spec2Model ----------------------------
(***************************************************************************)
(* ServX cloud storage: the JSON record store (Server/database.py), the    *)
(* request handlers (Server/routes.py) and the configuration               *)
(* (Server/config.py), as a state machine.                                 *)
(*                                                                         *)
(* The helper module utils.py (hash_password, verify_password,             *)
(* allowed_file, get_directory_size, get_files_in_directory,               *)
(* safe_filename, ensure_directory_exists) is imported by routes.py but is *)
(* not among the source files; its operators are modelled from the         *)
(* specification's section 4.2 / 4.3 and are marked as such.               *)
(***************************************************************************)
EXTENDS Integers, Sequences, FiniteSets, TLC

VARIABLES
    dbFile,      \* the store file DATABASE_FILE: missing, unparseable, or a JSON document
    dbBackup,    \* its sibling DATABASE_FILE.backup
    userDirs,    \* UPLOAD_FOLDER: username -> (stored file name -> size in bytes)
    sharedDirs,  \* SHARED_FOLDER: folder id -> (stored file name -> size in bytes)
    session,     \* the client's signed session cookie
    now,         \* the wall clock read by datetime.now()
    MAX_USERS,   \* Config.MAX_USERS, fixed when the process starts
    last,        \* the request (or store call) handled last, and its response
    issued,      \* history: folder ids handed out by secrets.token_hex so far
    deleted,     \* history: folder ids whose deletion by the owner completed
    wk           \* the two overlapping store calls of the interleaved specification

vars == <<dbFile, dbBackup, userDirs, sharedDirs, session, now, MAX_USERS, last,
          issued, deleted, wk>>

---------------------------------------------------------------------------
(* Bounds of the model *)

\* how many distinct usernames requests may name
NumUsers == 3
\* how many distinct folder ids secrets.token_hex may return
NumFolderIds == 1
\* how many files a directory tree (personal or shared) may hold in total
MaxFiles == 2
\* how far the wall clock advances
MaxClock == 1
\* a non-default MAX_USERS setting of the environment
MaxUsersEnv == 2

(* Program constants *)

\* int(os.environ.get('MAX_USERS', 10))
MAX_USERS_DEFAULT == 10
\* the literal of create_user's capacity test
CREATE_USER_CAP == 10
\* STORAGE_LIMIT_GB of the environment (default 10); 1 keeps every byte count
\* of the model inside TLC's 32-bit integers
STORAGE_LIMIT_GB == 1

STORAGE_LIMIT_PER_USER == STORAGE_LIMIT_GB * 1024 * 1024 * 1024

---------------------------------------------------------------------------
(* Input pools *)

UserPool == <<"alice", "bob", "carol", "dave", "erin">>
UserNames == {UserPool[i] : i \in 1..NumUsers}

\* usernames of a store that already holds CREATE_USER_CAP - 1 accounts
BulkPool == <<"u01", "u02", "u03", "u04", "u05", "u06", "u07", "u08", "u09", "u10">>
BulkNames == {BulkPool[i] : i \in 1..(CREATE_USER_CAP - 1)}

FolderIdPool == <<"f1a0", "f2b1", "f3c2", "f4d3">>
FolderIds == {FolderIdPool[i] : i \in 1..NumFolderIds}

\* passwords typed into the forms: two of at least 8 characters, one shorter, one empty
GoodPasswords == {"longenough1", "longenough2"}
Passwords == GoodPasswords \cup {"short", ""}
PasswordLen(p) == CASE p = "" -> 0 [] p = "short" -> 5 [] OTHER -> 11

Salts == {"salt0"}
EmailOf(u) == "user@example.org"

HalfLimit == STORAGE_LIMIT_PER_USER \div 2
\* sizes of uploaded files, in bytes
FileSizes == {1, HalfLimit - 1, HalfLimit}

Clock == 0..MaxClock

---------------------------------------------------------------------------
(* Python values *)

None == [some |-> FALSE]
Some(v) == [some |-> TRUE, value |-> v]

EmptyMap == [x \in {} |-> x]
\* d[k] = v
Put(d, k, v) == [x \in (DOMAIN d) \cup {k} |-> IF x = k THEN v ELSE d[x]]
\* del d[k]
Del(d, k) == [x \in (DOMAIN d) \ {k} |-> d[x]]
\* d.get(k)
Get(d, k) == IF k \in DOMAIN d THEN Some(d[k]) ELSE None

RECURSIVE SumOver(_, _)
SumOver(f, S) ==
    IF S = {} THEN 0
    ELSE LET x == CHOOSE y \in S : TRUE IN f[x] + SumOver(f, S \ {x})

---------------------------------------------------------------------------
(* database.py *)

EmptyDoc == [users |-> EmptyMap, shared_folders |-> EmptyMap]

\* contents of a file on disk: none, text that is no JSON, an empty file (opened
\* for writing and not yet written), bytes that are no UTF-8 text, a document
NoFile == [exists |-> FALSE, kind |-> "none", doc |-> EmptyDoc]
GarbageFile == [exists |-> TRUE, kind |-> "garbage", doc |-> EmptyDoc]
TruncatedFile == [exists |-> TRUE, kind |-> "truncated", doc |-> EmptyDoc]
BinaryFile == [exists |-> TRUE, kind |-> "binary", doc |-> EmptyDoc]
JsonFile(d) == [exists |-> TRUE, kind |-> "json", doc |-> d]

\* json.load succeeds
Parses(f) == f.exists /\ f.kind = "json"

\* reading the file as text fails
Undecodable(f) == f.exists /\ f.kind = "binary"

\* the store on disk: the document file and its .backup sibling
Disk(f, b) == [file |-> f, backup |-> b]

init_db(db) ==
    IF ~db.file.exists
    THEN [db EXCEPT !.file = JsonFile(EmptyDoc)]
    ELSE db

\* the returned document and the disk after the call, or the exception that
\* leaves load_db: the except clause names FileNotFoundError and
\* json.JSONDecodeError only, UnicodeDecodeError passes through it
load_db(db) ==
    IF Undecodable(db.file)
    THEN [data |-> EmptyDoc, db |-> db, raises |-> "UnicodeDecodeError"]
    ELSE IF Parses(db.file)
    THEN [data |-> db.file.doc, db |-> db, raises |-> ""]
    ELSE [data |-> EmptyDoc, db |-> init_db(db), raises |-> ""]

\* len() of the strings of the model: user names as typed, the folder name,
\* and folder ids, each of which stands for a secrets.token_hex(8) value of 16
\* characters
StrLen(x) ==
    CASE x = "" -> 0
      [] x = "ab" -> 2
      [] x = "bob" \/ \E i \in DOMAIN BulkPool : x = BulkPool[i] -> 3
      [] x \in {"dave", "erin", "Team"} -> 4
      [] x \in {"alice", "carol"} -> 5
      [] x = " alice " -> 7
      [] x = "alice/docs" -> 10
      [] x = "bob/../alice" -> 12
      [] x = "../shared_storage" -> 17
      [] OTHER -> 16

\* the number of decimal digits of n
RECURSIVE Digits(_)
Digits(n) == IF n < 10 THEN 1 ELSE 1 + Digits(n \div 10)

\* The number of characters json.dump(data, f, indent=2) writes.  A user
\* record takes 342 characters besides its name and the digits of
\* storage_used beyond the first (timestamps are isoformat strings of 26
\* characters, the salt and the hash hash_password's 32 and 64); a folder
\* record takes 120 besides its id, name, owner and member list.
json_len(data) ==
    LET users == data.users
        folders == data.shared_folders
        member_list(f) ==
            IF folders[f].shared_with = {} THEN 2
            ELSE 8 + SumOver([m \in folders[f].shared_with |-> 12 + StrLen(m)],
                             folders[f].shared_with)
        users_len ==
            IF DOMAIN users = {} THEN 2
            ELSE 4 + SumOver([u \in DOMAIN users |->
                                 347 + StrLen(u) + Digits(users[u].storage_used)],
                             DOMAIN users)
        folders_len ==
            IF DOMAIN folders = {} THEN 2
            ELSE 4 + SumOver([f \in DOMAIN folders |->
                                 126 + StrLen(f) + StrLen(folders[f].name)
                                     + StrLen(folders[f].owner) + member_list(f)],
                             DOMAIN folders)
    IN  37 + users_len + folders_len

\* outcomes of the backup copy: it succeeds, it fails before the backup is
\* opened for writing, or it fails after the backup was opened (truncated)
BackupOutcomes == {"copied", "failed", "failed_truncated"}

save_db_backup_after(db, data, bk) ==
    [file |-> JsonFile(data),
     backup |-> IF db.file.exists /\ bk = "copied" THEN JsonFile(data) ELSE db.backup]

\* save_db, lines 31-32: the store file read as text for the backup; reading
\* bytes that are no text fails
save_db_read(db, bk) ==
    IF Undecodable(db.file) \/ bk = "failed"
    THEN [read |-> FALSE, data |-> NoFile]
    ELSE [read |-> TRUE, data |-> db.file]

\* save_db, line 33: open(backup_file, 'w') empties the backup file
save_db_backup_open(db) == [db EXCEPT !.backup = TruncatedFile]

\* save_db, line 34: the text read from the store file is written from the
\* start of the backup file, over whatever another writer has put there since
\* the file was opened; an empty text writes nothing, and a longer text
\* underneath leaves its tail behind the one written
save_db_backup_write(db, backup_data) ==
    [db EXCEPT !.backup =
        IF backup_data.data.kind = "truncated" THEN @
        ELSE IF @.kind = "truncated" THEN backup_data.data
        ELSE IF /\ @.kind = "json" /\ backup_data.data.kind = "json"
                /\ json_len(backup_data.data.doc) >= json_len(@.doc)
        THEN backup_data.data
        ELSE GarbageFile]

\* save_db, lines 33-36: what was read is written to the backup file; the
\* bare except swallows every failure, a failed read before the backup is
\* opened and a failed write after it
save_db_copy(db, backup_data, bk) ==
    IF ~backup_data.read THEN db
    ELSE IF bk = "copied"
    THEN save_db_backup_write(save_db_backup_open(db), backup_data)
    ELSE save_db_backup_open(db)

\* save_db, line 39: open(db_file, 'w') empties the store file
save_db_open(db) == [db EXCEPT !.file = TruncatedFile]

\* save_db, line 40: the document is written from the start of the file, over
\* whatever another writer has put there since the file was opened; a longer
\* document underneath leaves its tail behind the one written
save_db_dump(db, data) ==
    [db EXCEPT !.file =
        IF @.kind = "truncated" THEN JsonFile(data)
        ELSE IF @.kind = "json" /\ json_len(data) >= json_len(@.doc) THEN JsonFile(data)
        ELSE GarbageFile]

save_db(db, data, bk) ==
    LET backed == IF db.file.exists
                  THEN save_db_copy(db, save_db_read(db, bk), bk)
                  ELSE db
    IN  save_db_dump(save_db_open(backed), data)

\* created_at and last_active are two readings of the clock
UserRecord(email, salt, hashed_password, t, t2, storage_limit) ==
    [email |-> email, salt |-> salt, password |-> hashed_password,
     created_at |-> t, last_active |-> t2,
     storage_used |-> 0, storage_limit |-> storage_limit]

\* what a store function does between its load_db and its save_db: whether
\* it goes on to save, the document it saves, and what it returns (ok) with
\* its message, if it has one
Change(save, data, ok, msg) == [save |-> save, data |-> data, ok |-> ok, msg |-> msg]

\* the function from its load_db call on: l is what load_db returned
Commit(l, c, bk) ==
    [db |-> IF l.raises = "" /\ c.save THEN save_db(l.db, c.data, bk) ELSE l.db,
     ret |-> IF l.raises = "" THEN c.ok ELSE FALSE,
     msg |-> IF l.raises = "" THEN c.msg ELSE "",
     raises |-> l.raises]

create_user_body_overwrite(data, username, email, salt, hashed_password, storage_limit, t, t2) ==
    IF Cardinality(DOMAIN data.users \ {username}) >= CREATE_USER_CAP
    THEN Change(FALSE, data, FALSE, "Maximum number of users reached")
    ELSE Change(TRUE,
                [data EXCEPT !.users = Put(data.users, username,
                    UserRecord(email, salt, hashed_password, t, t2, storage_limit))],
                TRUE, "User created successfully")

\* create_user, lines 46-60
create_user_body(data, username, email, salt, hashed_password, storage_limit, t, t2) ==
    IF username \in DOMAIN data.users
    THEN Change(FALSE, data, FALSE, "Username already exists")
    ELSE IF Cardinality(DOMAIN data.users) >= CREATE_USER_CAP
    THEN Change(FALSE, data, FALSE, "Maximum number of users reached")
    ELSE Change(TRUE,
                [data EXCEPT !.users = Put(data.users, username,
                    UserRecord(email, salt, hashed_password, t, t2, storage_limit))],
                TRUE, "User created successfully")

create_user(db, username, email, salt, hashed_password, storage_limit, t, t2, bk) ==
    LET l == load_db(db)
        c == Commit(l, create_user_body(l.data, username, email, salt, hashed_password,
                                        storage_limit, t, t2), bk)
    IN  [db |-> c.db, ok |-> c.ret, msg |-> c.msg, raises |-> c.raises]

get_user(db, username) ==
    LET l == load_db(db)
    IN  [db |-> l.db, ret |-> Get(l.data.users, username), raises |-> l.raises]

\* update_user_activity, lines 73-74; ret says whether the record was there
update_user_activity_body(data, username, t) ==
    IF username \in DOMAIN data.users
    THEN Change(TRUE, [data EXCEPT !.users[username].last_active = t], TRUE, "")
    ELSE Change(FALSE, data, FALSE, "")

update_user_activity(db, username, t, bk) ==
    LET l == load_db(db)
    IN  Commit(l, update_user_activity_body(l.data, username, t), bk)

\* update_user_storage, lines 80-81; ret says whether the record was there
update_user_storage_body(data, username, storage_used) ==
    IF username \in DOMAIN data.users
    THEN Change(TRUE, [data EXCEPT !.users[username].storage_used = storage_used],
                TRUE, "")
    ELSE Change(FALSE, data, FALSE, "")

update_user_storage(db, username, storage_used, bk) ==
    LET l == load_db(db)
    IN  Commit(l, update_user_storage_body(l.data, username, storage_used), bk)

get_all_users(db) ==
    LET l == load_db(db)
    IN  [db |-> l.db, ret |-> l.data.users, raises |-> l.raises]

FolderRecord(folder_name, owner, shared_with, t) ==
    [name |-> folder_name, owner |-> owner, shared_with |-> shared_with, created_at |-> t]

\* create_shared_folder, lines 93-101
create_shared_folder_body(data, folder_id, folder_name, owner, shared_with, t) ==
    Change(TRUE,
           [data EXCEPT !.shared_folders =
               Put(data.shared_folders, folder_id,
                   FolderRecord(folder_name, owner, shared_with, t))],
           TRUE, "")

create_shared_folder(db, folder_id, folder_name, owner, shared_with, t, bk) ==
    LET l == load_db(db)
    IN  Commit(l, create_shared_folder_body(l.data, folder_id, folder_name, owner,
                                            shared_with, t), bk)

get_shared_folder(db, folder_id) ==
    LET l == load_db(db)
    IN  [db |-> l.db, ret |-> Get(l.data.shared_folders, folder_id), raises |-> l.raises]

get_user_shared_folders(db, username) ==
    LET l == load_db(db)
        fs == l.data.shared_folders
    IN  [db |-> l.db,
         ret |-> {[id |-> f, name |-> fs[f].name, owner |-> fs[f].owner,
                   is_owner |-> (fs[f].owner = username),
                   shared_with |-> fs[f].shared_with] :
                  f \in {g \in DOMAIN fs :
                          fs[g].owner = username \/ username \in fs[g].shared_with}},
         raises |-> l.raises]

\* delete_shared_folder, lines 130-134
delete_shared_folder_body(data, folder_id) ==
    IF folder_id \in DOMAIN data.shared_folders
    THEN Change(TRUE, [data EXCEPT !.shared_folders = Del(data.shared_folders, folder_id)],
                TRUE, "")
    ELSE Change(FALSE, data, FALSE, "")

delete_shared_folder(db, folder_id, bk) ==
    LET l == load_db(db)
    IN  Commit(l, delete_shared_folder_body(l.data, folder_id), bk)

can_access_folder_any_user(db, username, folder_id) ==
    LET g == get_shared_folder(db, folder_id)
    IN  [db |-> g.db, ret |-> g.ret.some, raises |-> g.raises]

can_access_folder(db, username, folder_id) ==
    LET g == get_shared_folder(db, folder_id)
    IN  [db |-> g.db,
         ret |-> IF ~g.ret.some
                 THEN FALSE
                 ELSE g.ret.value.owner = username
                      \/ username \in g.ret.value.shared_with,
         raises |-> g.raises]

---------------------------------------------------------------------------
(* Paths *)

\* usernames typed into the registration form: plain ones and ones that
\* carry a path separator
PlainNames == {UserPool[1], UserPool[2]}
SeparatorNames == {"alice/docs", "bob/../alice", "../shared_storage"}
TypedNames == PlainNames \cup SeparatorNames

\* a path: whether it starts at the filesystem root, and its components
Path(absolute, segs) == [absolute |-> absolute, segs |-> segs]

\* str.split('/') of a name, as the operating system reads a path
AsPath(name) ==
    CASE name = ""                  -> Path(FALSE, <<>>)
      [] name = "alice/docs"        -> Path(FALSE, <<"alice", "docs">>)
      [] name = "bob/../alice"      -> Path(FALSE, <<"bob", "..", "alice">>)
      [] name = "../shared_storage" -> Path(FALSE, <<"..", "shared_storage">>)
      [] OTHER                      -> Path(FALSE, <<name>>)

\* Config.UPLOAD_FOLDER and Config.SHARED_FOLDER, relative to the working
\* directory
UPLOAD_FOLDER == Path(FALSE, <<"user_storage">>)
SHARED_FOLDER == Path(FALSE, <<"shared_storage">>)

\* os.path.join: a second part that is absolute replaces the first
os_path_join(a, b) ==
    IF b.absolute THEN b ELSE Path(a.absolute, a.segs \o b.segs)

\* the directory a path names, '.' and '..' components resolved
RECURSIVE resolve(_, _, _)
resolve(absolute, done, rest) ==
    IF rest = <<>> THEN Path(absolute, done)
    ELSE LET x == Head(rest)
             n == Len(done)
         IN  IF x = "." \/ x = ""
             THEN resolve(absolute, done, Tail(rest))
             ELSE IF x = ".."
             THEN IF n > 0 /\ done[n] # ".."
                  THEN resolve(absolute, SubSeq(done, 1, n - 1), Tail(rest))
                  ELSE IF absolute
                  THEN resolve(absolute, done, Tail(rest))
                  ELSE resolve(absolute, Append(done, x), Tail(rest))
             ELSE resolve(absolute, Append(done, x), Tail(rest))

\* directory p is q or lies inside q
WithinOrEqual(p, q) ==
    /\ p.absolute = q.absolute
    /\ Len(q.segs) <= Len(p.segs)
    /\ SubSeq(p.segs, 1, Len(q.segs)) = q.segs

\* the directory get_user_storage_path(username) creates and returns
user_storage_root(username) ==
    LET p == os_path_join(UPLOAD_FOLDER, AsPath(username))
    IN  resolve(p.absolute, <<>>, p.segs)

\* the directories a walk along the path enters, one per component
Visited(p) == {resolve(p.absolute, <<>>, SubSeq(p.segs, 1, n)) : n \in 1..Len(p.segs)}

---------------------------------------------------------------------------
(* utils.py, from the specification's sections 4.2 and 4.3 *)

\* the salted hash of hash_password, as the pair it is computed from
Hash(salt, password) == <<salt, password>>

verify_password(salt, stored_hash, candidate) == Hash(salt, candidate) = stored_hash

\* A directory tree is the map of the directories below one storage root:
\* the name of each directory, relative to the root, and its regular files
\* (name -> size).  The root itself has the empty name; app_production.py's
\* init_storage creates both roots before the first request.
RootDir == ""
EmptyTree == Put(EmptyMap, RootDir, EmptyMap)

\* the name of the directory with these components below its root
DirName(segs) ==
    CASE Len(segs) = 0 -> RootDir
      [] Len(segs) = 1 -> segs[1]
      [] OTHER -> CHOOSE n \in SeparatorNames : AsPath(n).segs = segs

\* the directories of the tree: every one but the root
Directories(dirs) == DOMAIN dirs \ {RootDir}

\* directory k of a tree is directory d or lies inside it
Inside(k, d) == WithinOrEqual(AsPath(k), AsPath(d))

\* os.makedirs(path, exist_ok=True), seen from the tree below root: every
\* directory the path walks through is made if it is absent, so
\* 'user_storage/bob/../alice' makes bob as well as alice
ensure_directory_exists(dirs, root, path) ==
    LET made == {DirName(SubSeq(v.segs, Len(root.segs) + 1, Len(v.segs))) :
                    v \in {x \in Visited(path) : WithinOrEqual(x, root)}}
    IN  [k \in DOMAIN dirs \cup made |-> IF k \in DOMAIN dirs THEN dirs[k] ELSE EmptyMap]

\* the files of the directory and of every directory inside it
get_directory_size(dirs, name) ==
    LET under == {k \in DOMAIN dirs : Inside(k, name)}
    IN  SumOver([k \in under |-> SumOver(dirs[k], DOMAIN dirs[k])], under)

\* the listing, without its order (by name): regular files, no directories
get_files_in_directory(dirs, name) ==
    IF name \in DOMAIN dirs
    THEN {[name |-> n, size |-> dirs[name][n]] : n \in DOMAIN dirs[name]}
    ELSE {}

\* names a client may give an uploaded file
UploadNames == {"", "notes.txt", "tool.exe"}

allowed_file(filename) == filename = "notes.txt"

NumberedNames == <<"notes_1.txt", "notes_2.txt", "notes_3.txt", "notes_4.txt", "notes_5.txt">>

safe_filename(filename, counter) ==
    IF counter = 0 THEN filename ELSE NumberedNames[counter]

\* names a client may put in a download or delete URL
StoredNames == {"notes.txt"} \cup {NumberedNames[i] : i \in 1..(MaxFiles - 1)}
UrlNames == StoredNames \cup {"old/notes.txt"}

\* os.path.basename
basename(path) == IF path = "old/notes.txt" THEN "notes.txt" ELSE path

\* os.path.isdir(os.path.join(dir, filename))
is_dir(dirs, name, filename) ==
    \E k \in DOMAIN dirs : AsPath(k).segs = Append(AsPath(name).segs, filename)

\* os.path.exists(os.path.join(dir, filename)): a file or a directory
path_exists(dirs, name, filename) ==
    /\ name \in DOMAIN dirs
    /\ filename \in DOMAIN dirs[name] \/ is_dir(dirs, name, filename)

\* file.save(filepath)
file_save(dirs, name, filename, size) ==
    [dirs EXCEPT ![name] = Put(dirs[name], filename, size)]

\* os.remove(filepath)
os_remove(dirs, name, filename) ==
    [dirs EXCEPT ![name] = Del(dirs[name], filename)]

\* the number of files a directory tree holds
FileCount(dirs) == SumOver([d \in DOMAIN dirs |-> Cardinality(DOMAIN dirs[d])], DOMAIN dirs)

---------------------------------------------------------------------------
(* routes.py: responses *)

Page(type, target, arg) == [type |-> type, target |-> target, arg |-> arg]
Returned == Page("return", "", "")
Render(template) == Page("render", template, "")
Redirect(endpoint) == Page("redirect", endpoint, "")
RedirectFolder(folder_id) == Page("redirect", "view_shared_folder", folder_id)
SendFile(filename) == Page("send", filename, "")
\* an exception no handler catches: the request ends as a 500 response
InternalServerError(exception) == Page("error", "500", exception)

\* what a handler leaves behind: the store, the two directory trees, the
\* session, the flashed message with its category, the response and the
\* values rendered
Outcome(db, udirs, sdirs, sess, level, msg, page, ret) ==
    [db |-> db, udirs |-> udirs, sdirs |-> sdirs, sess |-> sess,
     level |-> level, msg |-> msg, page |-> page, ret |-> ret]

NoSession == [has_username |-> FALSE, username |-> "", login_time |-> 0]

\* the state a handler runs in
World(db, udirs, sdirs, sess) == [db |-> db, udirs |-> udirs, sdirs |-> sdirs, sess |-> sess]

\* a response that changes nothing
Reply(w, level, msg, page) ==
    Outcome(w.db, w.udirs, w.sdirs, w.sess, level, msg, page, 0)

\* the handler raised: what it did before stays done, nothing is flashed
Raised(db, udirs, sdirs, sess, exception) ==
    Outcome(db, udirs, sdirs, sess, "", "", InternalServerError(exception), 0)

login_required(w, result) ==
    IF ~w.sess.has_username
    THEN Reply(w, "warning", "Please log in to access this page.", Redirect("login"))
    ELSE result

\* where the path os.path.join(UPLOAD_FOLDER, username) leads: the tree the
\* directory is in and its name there.  The username is joined as it is, so
\* '../shared_storage' leads to the root of the shared tree.
user_path(username) ==
    LET p == user_storage_root(username)
    IN  IF WithinOrEqual(p, UPLOAD_FOLDER)
        THEN [root |-> "user_storage",
              dir |-> DirName(SubSeq(p.segs, Len(UPLOAD_FOLDER.segs) + 1, Len(p.segs)))]
        ELSE [root |-> "shared_storage",
              dir |-> DirName(SubSeq(p.segs, Len(SHARED_FOLDER.segs) + 1, Len(p.segs)))]

\* the two trees after the directory was made sure of, and where it is
get_user_storage_path(udirs, sdirs, username) ==
    LET path == os_path_join(UPLOAD_FOLDER, AsPath(username))
        at == user_path(username)
    IN  [udirs |-> ensure_directory_exists(udirs, UPLOAD_FOLDER, path),
         sdirs |-> ensure_directory_exists(sdirs, SHARED_FOLDER, path),
         root |-> at.root, dir |-> at.dir]

\* the tree a user's directory is in, and the two trees with that one replaced
tree_at(udirs, sdirs, at) == IF at.root = "user_storage" THEN udirs ELSE sdirs
user_tree(udirs, at, tree) == IF at.root = "user_storage" THEN tree ELSE udirs
shared_tree(sdirs, at, tree) == IF at.root = "user_storage" THEN sdirs ELSE tree

\* folder ids are secrets.token_hex values or a single URL segment
get_shared_folder_path(sdirs, folder_id) ==
    ensure_directory_exists(sdirs, SHARED_FOLDER,
                            os_path_join(SHARED_FOLDER, AsPath(folder_id)))

---------------------------------------------------------------------------
(* routes.py: accounts and sessions *)

\* what a client may type into a username field
FormNames == {UserPool[1], UserPool[2], "", "ab", " alice "}
\* str.strip
strip(x) == IF x = " alice " THEN "alice" ELSE x
NameLen(x) == StrLen(x)

\* t and t2 are the two readings of the clock in create_user
register(w, method, form_username, email, password, confirm_password, salt, t, t2, bk) ==
    LET username == strip(form_username)
        c == create_user(w.db, username, email, salt, Hash(salt, password),
                         STORAGE_LIMIT_PER_USER, t, t2, bk)
        p == get_user_storage_path(w.udirs, w.sdirs, username)
    IN  IF method # "POST"
        THEN Reply(w, "", "", Render("register.html"))
        ELSE IF username = "" \/ email = "" \/ password = ""
        THEN Reply(w, "error", "All fields are required.", Render("register.html"))
        ELSE IF NameLen(username) < 3
        THEN Reply(w, "error", "Username must be at least 3 characters.",
                   Render("register.html"))
        ELSE IF PasswordLen(password) < 8
        THEN Reply(w, "error", "Password must be at least 8 characters.",
                   Render("register.html"))
        ELSE IF password # confirm_password
        THEN Reply(w, "error", "Passwords do not match.", Render("register.html"))
        ELSE IF c.raises # ""
        THEN Raised(c.db, w.udirs, w.sdirs, w.sess, c.raises)
        ELSE IF c.ok
        THEN Outcome(c.db, p.udirs, p.sdirs, w.sess,
                     "success", "Registration successful!", Redirect("login"), 0)
        ELSE Outcome(c.db, w.udirs, w.sdirs, w.sess,
                     "error", c.msg, Render("register.html"), 0)

login_accepts_any_password(salt, stored_hash, candidate) == TRUE

\* the test of login's line 117
login_password_ok(salt, stored_hash, candidate) ==
    verify_password(salt, stored_hash, candidate)

\* t is the clock read for session['login_time'], t2 the later one read in
\* update_user_activity; the session is written before update_user_activity
\* is called
login(w, method, form_username, password, t, t2, bk) ==
    LET username == strip(form_username)
        g == get_user(w.db, username)
        user == g.ret
        sess == [has_username |-> TRUE, username |-> username, login_time |-> t]
        a == update_user_activity(g.db, username, t2, bk)
    IN  IF w.sess.has_username
        THEN Reply(w, "", "", Redirect("storage"))
        ELSE IF method # "POST"
        THEN Reply(w, "", "", Render("login.html"))
        ELSE IF username = "" \/ password = ""
        THEN Reply(w, "error", "Please enter both username and password.",
                   Render("login.html"))
        ELSE IF g.raises # ""
        THEN Raised(g.db, w.udirs, w.sdirs, w.sess, g.raises)
        ELSE IF ~user.some
        THEN Outcome(g.db, w.udirs, w.sdirs, w.sess,
                     "error", "Invalid username or password.", Render("login.html"), 0)
        ELSE IF login_password_ok(user.value.salt, user.value.password, password)
        THEN IF a.raises # ""
             THEN Raised(a.db, w.udirs, w.sdirs, sess, a.raises)
             ELSE Outcome(a.db, w.udirs, w.sdirs, sess,
                          "success", "Welcome back!", Redirect("storage"), 0)
        ELSE Outcome(g.db, w.udirs, w.sdirs, w.sess,
                     "error", "Invalid username or password.", Render("login.html"), 0)

\* user['email'] of a user that is None raises TypeError
account(w) ==
    LET username == w.sess.username
        g == get_user(w.db, username)
        user == g.ret
        p == get_user_storage_path(w.udirs, w.sdirs, username)
        tree == tree_at(p.udirs, p.sdirs, p)
        storage_used == get_directory_size(tree, p.dir)
        file_count == Cardinality(get_files_in_directory(tree, p.dir))
    IN  login_required(w,
            IF g.raises # ""
            THEN Raised(g.db, w.udirs, w.sdirs, w.sess, g.raises)
            ELSE IF ~user.some
            THEN Raised(g.db, p.udirs, p.sdirs, w.sess, "TypeError")
            ELSE Outcome(g.db, p.udirs, p.sdirs, w.sess, "", "", Render("account.html"),
                         [email |-> user.value.email,
                          created_at |-> user.value.created_at,
                          storage_used |-> storage_used,
                          file_count |-> file_count]))

logout(w) ==
    login_required(w,
        Outcome(w.db, w.udirs, w.sdirs, NoSession,
                "success", "Goodbye!", Redirect("login"), 0))

---------------------------------------------------------------------------
(* routes.py: personal storage *)

\* an uploaded file part of the request, or its absence
NoUpload == [present |-> FALSE, filename |-> "", size |-> 0]
Upload(filename, size) == [present |-> TRUE, filename |-> filename, size |-> size]
Uploads == {NoUpload} \cup {Upload(n, sz) : n \in UploadNames, sz \in FileSizes}

storage(w, bk) ==
    LET username == w.sess.username
        p == get_user_storage_path(w.udirs, w.sdirs, username)
        tree == tree_at(p.udirs, p.sdirs, p)
        files == get_files_in_directory(tree, p.dir)
        storage_used == get_directory_size(tree, p.dir)
        u == update_user_storage(w.db, username, storage_used, bk)
    IN  login_required(w,
            IF u.raises # ""
            THEN Raised(u.db, p.udirs, p.sdirs, w.sess, u.raises)
            ELSE Outcome(u.db, p.udirs, p.sdirs, w.sess, "", "", Render("storage.html"),
                         [files |-> files, storage_used_bytes |-> storage_used]))

quota_exceeded_at_limit(storage_used, file_size, limit) ==
    storage_used + file_size >= limit

quota_exceeded(storage_used, file_size, limit) ==
    storage_used + file_size > limit

\* an upload that takes the first candidate name whether or not it is free
free_filename_first(dirs, name, filename, counter) == safe_filename(filename, counter)

\* the duplicate-avoidance loop: the first name, from safe_filename(filename,
\* counter) on, that the directory does not hold
RECURSIVE free_filename(_, _, _, _)
free_filename(dirs, name, filename, counter) ==
    IF path_exists(dirs, name, safe_filename(filename, counter))
    THEN free_filename(dirs, name, filename, counter + 1)
    ELSE safe_filename(filename, counter)

\* how many candidate names the loop looks at, the free one included
RECURSIVE candidates_tried(_, _, _, _)
candidates_tried(dirs, name, filename, counter) ==
    IF path_exists(dirs, name, safe_filename(filename, counter))
    THEN 1 + candidates_tried(dirs, name, filename, counter + 1)
    ELSE 1

\* upload_file from line 185 on, after the quota test let the file through
upload_file_admitted(w, file) ==
    LET at == user_path(w.sess.username)
        tree == tree_at(w.udirs, w.sdirs, at)
        filename == free_filename(tree, at.dir, file.filename, 0)
        saved == file_save(tree, at.dir, filename, file.size)
    IN  Outcome(w.db, user_tree(w.udirs, at, saved), shared_tree(w.sdirs, at, saved),
                w.sess,
                "success", "File uploaded successfully!", Redirect("storage"), filename)

\* whether upload_file reaches line 185
upload_file_admits(w, file) ==
    LET p == get_user_storage_path(w.udirs, w.sdirs, w.sess.username)
    IN  /\ w.sess.has_username
        /\ file.present /\ file.filename # ""
        /\ allowed_file(file.filename)
        /\ ~quota_exceeded(get_directory_size(tree_at(p.udirs, p.sdirs, p), p.dir),
                           file.size, STORAGE_LIMIT_PER_USER)

upload_file(w, file) ==
    LET username == w.sess.username
        p == get_user_storage_path(w.udirs, w.sdirs, username)
        storage_used == get_directory_size(tree_at(p.udirs, p.sdirs, p), p.dir)
    IN  login_required(w,
            IF ~file.present \/ file.filename = ""
            THEN Reply(w, "error", "No file selected.", Redirect("storage"))
            ELSE IF ~allowed_file(file.filename)
            THEN Reply(w, "error", "File type not allowed.", Redirect("storage"))
            ELSE IF quota_exceeded(storage_used, file.size, STORAGE_LIMIT_PER_USER)
            THEN Outcome(w.db, p.udirs, p.sdirs, w.sess,
                         "error", "Not enough storage space.", Redirect("storage"), 0)
            ELSE upload_file_admitted(World(w.db, p.udirs, p.sdirs, w.sess), file))

\* send_from_directory of a name that is a directory fails inside the try
download_file(w, path) ==
    LET username == w.sess.username
        p == get_user_storage_path(w.udirs, w.sdirs, username)
        tree == tree_at(p.udirs, p.sdirs, p)
        filename == basename(path)
    IN  login_required(w,
            IF ~path_exists(tree, p.dir, filename)
            THEN Outcome(w.db, p.udirs, p.sdirs, w.sess,
                         "error", "File not found.", Redirect("storage"), 0)
            ELSE IF filename \notin DOMAIN tree[p.dir]
            THEN Outcome(w.db, p.udirs, p.sdirs, w.sess,
                         "error", "Error downloading file.", Redirect("storage"), 0)
            ELSE Outcome(w.db, p.udirs, p.sdirs, w.sess, "", "", SendFile(filename),
                         tree[p.dir][filename]))

\* delete_file from line 230 on, after os.path.exists returned True;
\* os.remove of a path that is no longer there raises FileNotFoundError,
\* os.remove of a directory IsADirectoryError
delete_file_found(w, path) ==
    LET at == user_path(w.sess.username)
        tree == tree_at(w.udirs, w.sdirs, at)
        filename == basename(path)
        removed == os_remove(tree, at.dir, filename)
    IN  IF ~path_exists(tree, at.dir, filename)
        THEN Raised(w.db, w.udirs, w.sdirs, w.sess, "FileNotFoundError")
        ELSE IF filename \notin DOMAIN tree[at.dir]
        THEN Raised(w.db, w.udirs, w.sdirs, w.sess, "IsADirectoryError")
        ELSE Outcome(w.db, user_tree(w.udirs, at, removed),
                     shared_tree(w.sdirs, at, removed), w.sess,
                     "success", "File deleted successfully.", Redirect("storage"), filename)

delete_file(w, path) ==
    LET username == w.sess.username
        p == get_user_storage_path(w.udirs, w.sdirs, username)
        filename == basename(path)
    IN  login_required(w,
            IF ~path_exists(tree_at(p.udirs, p.sdirs, p), p.dir, filename)
            THEN Outcome(w.db, p.udirs, p.sdirs, w.sess,
                         "error", "File not found.", Redirect("storage"), 0)
            ELSE delete_file_found(World(w.db, p.udirs, p.sdirs, w.sess), path))

---------------------------------------------------------------------------
(* routes.py: shared folders *)

\* the listing creates the directory of every folder it shows
RECURSIVE ensure_all(_, _)
ensure_all(sdirs, ids) ==
    IF ids = {} THEN sdirs
    ELSE LET f == CHOOSE g \in ids : TRUE
         IN  ensure_all(get_shared_folder_path(sdirs, f), ids \ {f})

shared_folders(w) ==
    LET username == w.sess.username
        g == get_user_shared_folders(w.db, username)
        sdirs == ensure_all(w.sdirs, {folder.id : folder \in g.ret})
        a == get_all_users(g.db)
    IN  login_required(w,
            IF g.raises # ""
            THEN Raised(g.db, w.udirs, w.sdirs, w.sess, g.raises)
            ELSE IF a.raises # ""
            THEN Raised(a.db, w.udirs, sdirs, w.sess, a.raises)
            ELSE Outcome(a.db, w.udirs, sdirs, w.sess, "", "", Render("shared.html"),
                         [folders |-> {[folder |-> folder,
                                        file_count |-> Cardinality(
                                            get_files_in_directory(sdirs, folder.id))] :
                                       folder \in g.ret},
                          all_users |-> DOMAIN a.ret \ {username}]))

create_folder(w, folder_name, shared_with_users, folder_id, t, bk) ==
    LET username == w.sess.username
        c == create_shared_folder(w.db, folder_id, folder_name, username,
                                  shared_with_users, t, bk)
    IN  login_required(w,
            IF folder_name = ""
            THEN Reply(w, "error", "Please enter a folder name.", Redirect("shared_folders"))
            ELSE IF shared_with_users = {}
            THEN Reply(w, "error", "Please select at least one user to share with.",
                       Redirect("shared_folders"))
            ELSE IF c.raises # ""
            THEN Raised(c.db, w.udirs, w.sdirs, w.sess, c.raises)
            ELSE Outcome(c.db, w.udirs, get_shared_folder_path(w.sdirs, folder_id), w.sess,
                         "success", "Shared folder created successfully!",
                         RedirectFolder(folder_id), folder_id))

AccessDenied(w, db) ==
    Outcome(db, w.udirs, w.sdirs, w.sess,
            "error", "You do not have access to this folder.",
            Redirect("shared_folders"), 0)

\* view_shared_folder from line 284 on, after can_access_folder returned True;
\* folder_info['name'] of a folder_info that is None raises TypeError
view_shared_folder_granted(w, folder_id) ==
    LET username == w.sess.username
        g == get_shared_folder(w.db, folder_id)
        folder_info == g.ret.value
        sdirs == get_shared_folder_path(w.sdirs, folder_id)
        files == get_files_in_directory(sdirs, folder_id)
    IN  IF g.raises # ""
        THEN Raised(g.db, w.udirs, w.sdirs, w.sess, g.raises)
        ELSE IF ~g.ret.some
        THEN Raised(g.db, w.udirs, sdirs, w.sess, "TypeError")
        ELSE Outcome(g.db, w.udirs, sdirs, w.sess, "", "", Render("shared_folder.html"),
                     [folder_name |-> folder_info.name,
                      is_owner |-> (folder_info.owner = username),
                      owner |-> folder_info.owner,
                      shared_with |-> folder_info.shared_with,
                      files |-> files])

view_shared_folder(w, folder_id) ==
    LET c == can_access_folder(w.db, w.sess.username, folder_id)
    IN  login_required(w,
            IF c.raises # ""
            THEN Raised(c.db, w.udirs, w.sdirs, w.sess, c.raises)
            ELSE IF ~c.ret
            THEN AccessDenied(w, c.db)
            ELSE view_shared_folder_granted(World(c.db, w.udirs, w.sdirs, w.sess),
                                            folder_id))

\* upload_to_shared from line 307 on, after can_access_folder returned True
upload_to_shared_granted(w, folder_id, file) ==
    LET sdirs == get_shared_folder_path(w.sdirs, folder_id)
        filename == free_filename(sdirs, folder_id, file.filename, 0)
    IN  IF ~file.present \/ file.filename = ""
        THEN Reply(w, "error", "No file selected.", RedirectFolder(folder_id))
        ELSE IF ~allowed_file(file.filename)
        THEN Reply(w, "error", "File type not allowed.", RedirectFolder(folder_id))
        ELSE Outcome(w.db, w.udirs, file_save(sdirs, folder_id, filename, file.size),
                     w.sess, "success", "File uploaded to shared folder!",
                     RedirectFolder(folder_id), filename)

upload_to_shared(w, folder_id, file) ==
    LET c == can_access_folder(w.db, w.sess.username, folder_id)
    IN  login_required(w,
            IF c.raises # ""
            THEN Raised(c.db, w.udirs, w.sdirs, w.sess, c.raises)
            ELSE IF ~c.ret
            THEN AccessDenied(w, c.db)
            ELSE upload_to_shared_granted(World(c.db, w.udirs, w.sdirs, w.sess),
                                          folder_id, file))

\* download_shared_file from line 346 on, after can_access_folder returned True
download_shared_file_granted(w, folder_id, path) ==
    LET sdirs == get_shared_folder_path(w.sdirs, folder_id)
        filename == basename(path)
    IN  IF ~path_exists(sdirs, folder_id, filename)
        THEN Outcome(w.db, w.udirs, sdirs, w.sess,
                     "error", "File not found.", RedirectFolder(folder_id), 0)
        ELSE Outcome(w.db, w.udirs, sdirs, w.sess, "", "", SendFile(filename),
                     sdirs[folder_id][filename])

download_shared_file(w, folder_id, path) ==
    LET c == can_access_folder(w.db, w.sess.username, folder_id)
    IN  login_required(w,
            IF c.raises # ""
            THEN Raised(c.db, w.udirs, w.sdirs, w.sess, c.raises)
            ELSE IF ~c.ret
            THEN AccessDenied(w, c.db)
            ELSE download_shared_file_granted(World(c.db, w.udirs, w.sdirs, w.sess),
                                              folder_id, path))

\* delete_shared_file from line 369 on, after can_access_folder returned True
delete_shared_file_granted(w, folder_id, path) ==
    LET sdirs == get_shared_folder_path(w.sdirs, folder_id)
        filename == basename(path)
    IN  IF ~path_exists(sdirs, folder_id, filename)
        THEN Outcome(w.db, w.udirs, sdirs, w.sess,
                     "error", "File not found.", RedirectFolder(folder_id), 0)
        ELSE Outcome(w.db, w.udirs, os_remove(sdirs, folder_id, filename), w.sess,
                     "success", "File deleted from shared folder.",
                     RedirectFolder(folder_id), filename)

delete_shared_file(w, folder_id, path) ==
    LET c == can_access_folder(w.db, w.sess.username, folder_id)
    IN  login_required(w,
            IF c.raises # ""
            THEN Raised(c.db, w.udirs, w.sdirs, w.sess, c.raises)
            ELSE IF ~c.ret
            THEN AccessDenied(w, c.db)
            ELSE delete_shared_file_granted(World(c.db, w.udirs, w.sdirs, w.sess),
                                            folder_id, path))

delete_folder_may_member(folder_info, username) ==
    folder_info.owner = username \/ username \in folder_info.shared_with

\* the test of delete_folder's line 391, negated
delete_folder_may(folder_info, username) == folder_info.owner = username

\* delete_folder from line 395 on, after the owner test passed
delete_folder_granted(w, folder_id, folder_name, bk) ==
    LET \* get_shared_folder_path creates the directory, shutil.rmtree removes it
        sdirs == Del(get_shared_folder_path(w.sdirs, folder_id), folder_id)
        d == delete_shared_folder(w.db, folder_id, bk)
    IN  IF d.raises # ""
        THEN Raised(d.db, w.udirs, sdirs, w.sess, d.raises)
        ELSE Outcome(d.db, w.udirs, sdirs, w.sess,
                     "success", "Shared folder deleted successfully.",
                     Redirect("shared_folders"), folder_name)

delete_folder(w, folder_id, bk) ==
    LET username == w.sess.username
        g == get_shared_folder(w.db, folder_id)
        folder_info == g.ret.value
    IN  login_required(w,
            IF g.raises # ""
            THEN Raised(g.db, w.udirs, w.sdirs, w.sess, g.raises)
            ELSE IF ~g.ret.some
            THEN Outcome(g.db, w.udirs, w.sdirs, w.sess,
                         "error", "Folder not found.", Redirect("shared_folders"), 0)
            ELSE IF ~delete_folder_may(folder_info, username)
            THEN Outcome(g.db, w.udirs, w.sdirs, w.sess,
                         "error", "Only the folder owner can delete this folder.",
                         Redirect("shared_folders"), 0)
            ELSE delete_folder_granted(World(g.db, w.udirs, w.sdirs, w.sess),
                                       folder_id, folder_info.name, bk))

---------------------------------------------------------------------------
(* State shared by the specifications *)

TheDisk == Disk(dbFile, dbBackup)
SetDisk(db) == dbFile' = db.file /\ dbBackup' = db.backup

\* what load_db reads from the store file as it stands
Stored == load_db(TheDisk).data
StoredAfter == load_db(Disk(dbFile', dbBackup')).data

\* a worker process of the interleaved specifications: where it is in its
\* call or request, the call, the document it loaded, the document it is
\* about to save, what it read for the backup, the clock readings it took,
\* the size of the file it is uploading, history fields (how many calls had
\* written the store when it loaded, its place in the order of writes), the
\* record a request fetched, the counter of its naming loop, the entries
\* shutil.rmtree has listed and not yet removed, and the file count of the
\* account page
Idle == [pc |-> "idle", op |-> "", user |-> "", folder |-> "", data |-> EmptyDoc,
         doc |-> EmptyDoc, backup_data |-> [read |-> FALSE, data |-> NoFile],
         ok |-> FALSE, behind |-> 0, seq |-> 0, t |-> 0, t2 |-> 0, size |-> 0,
         info |-> None, counter |-> 0, names |-> {}, file_count |-> 0]
Workers == {1, 2}
WkIdle == [w \in Workers |-> Idle]

\* a request (or a direct call of a store function) and its response
Handled(kind, user, folder, file, password, bk, ok, msg, page, ret) ==
    [kind |-> kind, user |-> user, folder |-> folder, file |-> file,
     password |-> password, bk |-> bk, ok |-> ok, msg |-> msg, page |-> page,
     ret |-> ret]

\* a request to a handler, with the session it came with, and its response;
\* ok says that no error or warning was flashed
Served(kind, method, sess, user, folder, file, password, out) ==
    [kind |-> kind, method |-> method, sess |-> sess, user |-> user,
     folder |-> folder, file |-> file, password |-> password, bk |-> "copied",
     ok |-> (out.level \notin {"error", "warning"} /\ out.page.type # "error"),
     level |-> out.level, msg |-> out.msg, page |-> out.page, ret |-> out.ret]

TheWorld == World(TheDisk, userDirs, sharedDirs, session)

\* the handler's outcome becomes the state
Becomes(out) ==
    /\ SetDisk(out.db)
    /\ userDirs' = out.udirs
    /\ sharedDirs' = out.sdirs
    /\ session' = out.sess

Started == Handled("start", "", "", "", "", "", TRUE, "", Returned, 0)

\* a store that holds CREATE_USER_CAP - 1 accounts, registered at time 0
BulkDoc ==
    [users |-> [u \in BulkNames |->
                   UserRecord(EmailOf(u), "salt0", <<"salt0", "longenough1">>, 0, 0,
                              STORAGE_LIMIT_PER_USER)],
     shared_folders |-> EmptyMap]

InitRest ==
    /\ dbBackup = NoFile
    /\ userDirs = EmptyTree
    /\ sharedDirs = EmptyTree
    /\ session = NoSession
    /\ now = 0
    /\ last = Started
    /\ issued = {}
    /\ deleted = {}
    /\ wk = WkIdle

\* datetime.now(): a reading of the clock is not before the last one (now),
\* and two readings in one call are in order
Reading == {t \in Clock : t >= now}
Readings == {r \in Clock \X Clock : now <= r[1] /\ r[1] <= r[2]}

---------------------------------------------------------------------------
(* The store functions of database.py called one at a time *)

\* The calls read the clock freely, so the records of a store differ in
\* their timestamps; to keep the stores few, the two update calls are made for
\* the first user, and the backup copy may fail in update_user_storage alone.
StoreUnchanged == UNCHANGED <<userDirs, sharedDirs, session, MAX_USERS,
                              issued, deleted, wk>>

\* how a direct call ended: it returned, or the exception left it
Ended(raises) == IF raises = "" THEN Returned ELSE Page("raise", raises, "")

CallLoadDb ==
    LET l == load_db(TheDisk)
    IN  /\ SetDisk(l.db)
        /\ last' = Handled("load_db", "", "", "", "", "", l.raises = "", "",
                           Ended(l.raises), l.data)
        /\ now' = now
        /\ StoreUnchanged

CallCreateUser ==
    \E u \in UserNames, pw \in {"longenough1"}, salt \in Salts, bk \in {"copied"},
       r \in Readings :
        LET c == create_user(TheDisk, u, EmailOf(u), salt, Hash(salt, pw),
                             STORAGE_LIMIT_PER_USER, r[1], r[2], bk)
        IN  /\ SetDisk(c.db)
            /\ last' = Handled("create_user", u, "", "", pw, bk, c.ok, c.msg,
                               Ended(c.raises), 0)
            /\ now' = r[2]
            /\ StoreUnchanged

CallGetUser ==
    \E u \in UserNames :
        LET r == get_user(TheDisk, u)
        IN  /\ SetDisk(r.db)
            /\ last' = Handled("get_user", u, "", "", "", "", r.ret.some, "",
                               Ended(r.raises), r.ret)
            /\ now' = now
            /\ StoreUnchanged

CallUpdateUserActivity ==
    \E u \in {UserPool[1]}, bk \in {"copied"}, t \in Reading :
        LET r == update_user_activity(TheDisk, u, t, bk)
        IN  /\ SetDisk(r.db)
            /\ last' = Handled("update_user_activity", u, "", "", "", bk,
                               u \in DOMAIN Stored.users, "", Ended(r.raises), t)
            /\ now' = t
            /\ StoreUnchanged

CallUpdateUserStorage ==
    \E u \in {UserPool[1]}, n \in {HalfLimit}, bk \in BackupOutcomes :
        LET r == update_user_storage(TheDisk, u, n, bk)
        IN  /\ SetDisk(r.db)
            /\ last' = Handled("update_user_storage", u, "", "", "", bk,
                               u \in DOMAIN Stored.users, "", Ended(r.raises), n)
            /\ now' = now
            /\ StoreUnchanged

\* the process starts with the configured maximum and whatever the store
\* file holds: nothing, text that is no JSON, bytes that are no text, an
\* empty document, or (under the default maximum) a document one account
\* short of create_user's capacity
InitStore ==
    /\ InitRest
    /\ \/ /\ MAX_USERS = MAX_USERS_DEFAULT
          /\ dbFile \in {NoFile, GarbageFile, BinaryFile, JsonFile(EmptyDoc),
                         JsonFile(BulkDoc)}
       \/ /\ MAX_USERS = MaxUsersEnv
          /\ dbFile \in {NoFile, JsonFile(EmptyDoc)}

NextStore ==
    \/ CallLoadDb
    \/ CallCreateUser
    \/ CallGetUser
    \/ CallUpdateUserActivity
    \/ CallUpdateUserStorage

SpecStore == InitStore /\ [][NextStore]_vars

---------------------------------------------------------------------------
(* Claims about the store functions, under SpecStore *)

\* C2: a create_user call for a username the store already holds fails and
\* leaves the store file and its backup as they were; a create_user call that
\* succeeds was for a username the store did not hold and adds exactly that
\* one record, with storage_used = 0, to the records already there.
C2_CreateUserAddsExactlyOne ==
    [][ last'.kind = "create_user" =>
          LET pre == Stored.users
              post == StoredAfter.users
              u == last'.user
          IN  /\ u \in DOMAIN pre =>
                    /\ ~last'.ok
                    /\ post = pre
                    /\ dbFile' = dbFile
                    /\ dbBackup' = dbBackup
              /\ last'.ok =>
                    /\ u \notin DOMAIN pre
                    /\ DOMAIN post = DOMAIN pre \cup {u}
                    /\ Cardinality(DOMAIN post) = Cardinality(DOMAIN pre) + 1
                    /\ \A x \in DOMAIN pre : post[x] = pre[x]
                    /\ post[u].storage_used = 0 ]_vars

\* a duplicate registration was refused in a store holding two accounts, one
\* of them with a storage_used other than 0
C2_Witness ==
    /\ last.kind = "create_user"
    /\ ~last.ok
    /\ last.msg = "Username already exists"
    /\ Cardinality(DOMAIN Stored.users) = 2
    /\ Stored.users[last.user].storage_used # 0

\* C3: the number of user records never exceeds the configured maximum
\* Config.MAX_USERS.
C3_UserCountWithinConfiguredMaximum ==
    Cardinality(DOMAIN Stored.users) <= MAX_USERS

\* C8: load_db on a missing or unparseable store file does not raise, returns
\* the empty document and leaves the empty document in the file.
C8_LoadDbReinitialisesFile ==
    [][ (last'.kind = "load_db" /\ ~Parses(dbFile)) =>
            /\ last'.page = Returned
            /\ last'.ret = EmptyDoc
            /\ dbFile' = JsonFile(EmptyDoc) ]_vars

\* load_db ended in an exception: the store file holds bytes that are no text
C8_LoadDbRaised ==
    /\ last.kind = "load_db"
    /\ last.page = Page("raise", "UnicodeDecodeError", "")
    /\ dbFile = BinaryFile

\* a store call that reached save_db
SavingCall(l, before) ==
    \/ l.kind = "create_user" /\ l.ok
    \/ l.kind \in {"update_user_activity", "update_user_storage"}
       /\ l.user \in DOMAIN before.users

\* C9: every save_db finds the store file present; when its backup copy
\* succeeds the .backup file afterwards holds what the store file held just
\* before the save; whether or not the copy succeeds the store file afterwards
\* holds the new document; and calls that do not save leave the .backup file
\* and a parseable store file as they were.
C9_BackupHoldsPreviousGeneration ==
    [][ IF SavingCall(last', Stored)
        THEN LET pre == load_db(TheDisk).db.file
                 u == last'.user
             IN  /\ pre.exists
                 /\ last'.bk = "copied" => dbBackup' = pre
                 /\ last'.bk # "copied" => dbBackup' \in {dbBackup, TruncatedFile}
                 /\ Parses(dbFile')
                 /\ u \in DOMAIN dbFile'.doc.users
                 /\ last'.kind = "update_user_storage" =>
                        dbFile'.doc = [Stored EXCEPT !.users[u].storage_used = last'.ret]
                 /\ last'.kind = "update_user_activity" =>
                        dbFile'.doc = [Stored EXCEPT !.users[u].last_active = last'.ret]
        ELSE /\ dbBackup' = dbBackup
             /\ Parses(dbFile) => dbFile' = dbFile ]_vars

\* a save whose copy succeeded leaves two different generations on disk
C9_Witness ==
    /\ last.kind = "update_user_storage"
    /\ last.ok
    /\ last.bk = "copied"
    /\ Parses(dbBackup)
    /\ Cardinality(DOMAIN dbBackup.doc.users) = 2
    /\ dbBackup # dbFile
    /\ dbBackup.doc.users[last.user].storage_used = 0
    /\ dbFile.doc.users[last.user].storage_used = HalfLimit

---------------------------------------------------------------------------
(* Requests to the personal-storage handlers, one at a time.  The backup copy *)
(* of save_db is taken to succeed in the handler specifications.           *)

HandlerUnchanged == UNCHANGED <<now, MAX_USERS, issued, deleted, wk>>
\* of a handler that reads the clock
ClockHandlerUnchanged == UNCHANGED <<MAX_USERS, issued, deleted, wk>>

GetStorage ==
    LET out == storage(TheWorld, "copied")
    IN  /\ Becomes(out)
        /\ last' = Served("storage", "GET", session, session.username, "", "", "", out)
        /\ HandlerUnchanged

PostUpload ==
    \E file \in Uploads :
        LET out == upload_file(TheWorld, file)
        IN  /\ FileCount(out.udirs) <= MaxFiles
            /\ Becomes(out)
            /\ last' = Served("upload_file", "POST", session, session.username, "", file, "", out)
            /\ HandlerUnchanged

GetDownload ==
    \E path \in UrlNames :
        LET out == download_file(TheWorld, path)
        IN  /\ Becomes(out)
            /\ last' = Served("download_file", "GET", session, session.username, "", path, "", out)
            /\ HandlerUnchanged

PostDelete ==
    \E path \in UrlNames :
        LET out == delete_file(TheWorld, path)
        IN  /\ Becomes(out)
            /\ last' = Served("delete_file", "POST", session, session.username, "", path, "", out)
            /\ HandlerUnchanged

---------------------------------------------------------------------------
(* Requests to the account handlers, one at a time *)

Methods == {"GET", "POST"}

\* the state a handler's outcome leaves
WorldOf(out) == World(out.db, out.udirs, out.sdirs, out.sess)

PostRegister ==
    \E m \in Methods, u \in FormNames, pw \in {"longenough1", "short", ""},
       cpw \in {"longenough1", "longenough2"}, salt \in Salts, r \in Readings :
        LET out == register(TheWorld, m, u, EmailOf(u), pw, cpw, salt, r[1], r[2],
                            "copied")
        IN  /\ Becomes(out)
            /\ last' = Served("register", m, session, u, "", "", pw, out)
            /\ now' = IF out.level = "success" THEN r[2] ELSE now
            /\ ClockHandlerUnchanged

PostLogin ==
    \E m \in Methods, u \in FormNames, pw \in Passwords, r \in Readings :
        LET out == login(TheWorld, m, u, pw, r[1], r[2], "copied")
        IN  /\ Becomes(out)
            /\ last' = Served("login", m, session, u, "", "", pw, out)
            /\ now' = IF out.level = "success" THEN r[2] ELSE now
            /\ ClockHandlerUnchanged

GetLogout ==
    LET out == logout(TheWorld)
    IN  /\ Becomes(out)
        /\ last' = Served("logout", "GET", session, session.username, "", "", "", out)
        /\ HandlerUnchanged

\* the application has started (init_storage has run init_db) on an empty store
FreshWorld == World(Disk(JsonFile(EmptyDoc), NoFile), EmptyTree, EmptyTree, NoSession)

InitAuth ==
    /\ InitRest
    /\ MAX_USERS = MAX_USERS_DEFAULT
    /\ dbFile = FreshWorld.db.file

NextAuth ==
    \/ PostRegister
    \/ PostLogin
    \/ GetLogout

SpecAuth == InitAuth /\ [][NextAuth]_vars

---------------------------------------------------------------------------
(* Personal storage of one account *)

\* the first n names of UserPool have registered, at time 0
RECURSIVE Registered(_)
Registered(n) ==
    IF n = 0
    THEN FreshWorld
    ELSE WorldOf(register(Registered(n - 1), "POST", UserPool[n], EmailOf(UserPool[n]),
                          "longenough1", "longenough1", "salt0", 0, 0, "copied"))

\* and the first of them has logged in
LoggedIn(n) ==
    WorldOf(login(Registered(n), "POST", UserPool[1], "longenough1", 0, 0, "copied"))

StartsAs(w) ==
    /\ dbFile = w.db.file
    /\ dbBackup = w.db.backup
    /\ userDirs = w.udirs
    /\ sharedDirs = w.sdirs
    /\ session = w.sess
    /\ now = 0
    /\ MAX_USERS = MAX_USERS_DEFAULT
    /\ last = Started
    /\ issued = {}
    /\ deleted = {}
    /\ wk = WkIdle

InitQuota == StartsAs(LoggedIn(1))

NextQuota ==
    \/ GetStorage
    \/ PostUpload
    \/ GetDownload
    \/ PostDelete

SpecQuota == InitQuota /\ [][NextQuota]_vars

---------------------------------------------------------------------------
(* Requests to the shared-folder handlers, one at a time *)

\* folder ids a client may put in a URL: those token_hex may return and one
\* it never returns
UrlFolderIds == FolderIds \cup {"0000"}

\* files uploaded to shared folders (no quota applies to them)
SharedUploads == {NoUpload} \cup {Upload(n, 1) : n \in UploadNames}

SharedUnchanged == UNCHANGED <<now, MAX_USERS, issued, deleted, wk>>

\* who sends the shared-folder requests: a user who creates folders, the user
\* folders are shared with, and a user who is neither
Requesters == {UserPool[1], UserPool[2], UserPool[3]}

\* a login with the right password; its two clock readings both return the
\* present time (SpecAuth lets the clock advance between them)
SignIn ==
    \E u \in Requesters :
        LET out == login(TheWorld, "POST", u, "longenough1", now, now, "copied")
        IN  /\ Becomes(out)
            /\ last' = Served("login", "POST", session, u, "", "", "longenough1", out)
            /\ SharedUnchanged

GetSharedFolders ==
    LET out == shared_folders(TheWorld)
    IN  /\ Becomes(out)
        /\ last' = Served("shared_folders", "GET", session, session.username, "", "", "", out)
        /\ SharedUnchanged

\* secrets.token_hex(8) is taken to return an id it has not returned before;
\* the clock reading of create_shared_folder returns the present time
PostCreateFolder ==
    \E name \in {"", "Team"}, m \in {{}, {UserPool[2]}},
       f \in FolderIds \ issued :
        LET out == create_folder(TheWorld, name, m, f, now, "copied")
        IN  /\ Becomes(out)
            /\ last' = Served("create_folder", "POST", session, session.username, f, m, "", out)
            /\ issued' = IF out.level = "success" THEN issued \cup {f} ELSE issued
            /\ UNCHANGED <<now, MAX_USERS, deleted, wk>>

GetViewSharedFolder ==
    \E f \in UrlFolderIds :
        LET out == view_shared_folder(TheWorld, f)
        IN  /\ Becomes(out)
            /\ last' = Served("view_shared_folder", "GET", session, session.username, f,
                              "", "", out)
            /\ SharedUnchanged

PostUploadToShared ==
    \E f \in UrlFolderIds, file \in SharedUploads :
        LET out == upload_to_shared(TheWorld, f, file)
        IN  /\ FileCount(out.sdirs) <= MaxFiles
            /\ Becomes(out)
            /\ last' = Served("upload_to_shared", "POST", session, session.username, f,
                              file, "", out)
            /\ SharedUnchanged

GetDownloadShared ==
    \E f \in UrlFolderIds, path \in UrlNames :
        LET out == download_shared_file(TheWorld, f, path)
        IN  /\ Becomes(out)
            /\ last' = Served("download_shared_file", "GET", session, session.username, f,
                              path, "", out)
            /\ SharedUnchanged

PostDeleteShared ==
    \E f \in UrlFolderIds, path \in UrlNames :
        LET out == delete_shared_file(TheWorld, f, path)
        IN  /\ Becomes(out)
            /\ last' = Served("delete_shared_file", "POST", session, session.username, f,
                              path, "", out)
            /\ SharedUnchanged

PostDeleteFolder ==
    \E f \in UrlFolderIds :
        LET out == delete_folder(TheWorld, f, "copied")
        IN  /\ Becomes(out)
            /\ last' = Served("delete_folder", "POST", session, session.username, f, "", "", out)
            /\ deleted' = IF out.level = "success" THEN deleted \cup {f} ELSE deleted
            /\ UNCHANGED <<now, MAX_USERS, issued, wk>>

\* every name of UserNames has registered; nobody is logged in
InitShared == StartsAs(Registered(NumUsers))

NextShared ==
    \/ SignIn
    \/ GetLogout
    \/ GetSharedFolders
    \/ PostCreateFolder
    \/ GetViewSharedFolder
    \/ PostUploadToShared
    \/ GetDownloadShared
    \/ PostDeleteShared
    \/ PostDeleteFolder

SpecShared == InitShared /\ [][NextShared]_vars

---------------------------------------------------------------------------
(* Claims about the handlers *)

\* C1: an upload that passes the file-presence and file-type checks is judged
\* against the bytes the user's directory holds when the request arrives:
\* if they and the incoming size together exceed STORAGE_LIMIT_PER_USER the
\* upload is refused and the directory keeps its files; otherwise, the sum
\* equal to the limit included, the file is stored under a name the directory
\* did not hold and the directory grows by exactly that file.
C1_QuotaDecidesUpload ==
    [][ (/\ last'.kind = "upload_file"
         /\ last'.sess.has_username
         /\ last'.file.present
         /\ last'.file.filename = "notes.txt") =>
          LET u == last'.sess.username
              old == IF u \in DOMAIN userDirs THEN userDirs[u] ELSE EmptyMap
              used == SumOver(old, DOMAIN old)
              S == last'.file.size
          IN  IF used + S > STORAGE_LIMIT_PER_USER
              THEN /\ ~last'.ok
                   /\ last'.msg = "Not enough storage space."
                   /\ userDirs'[u] = old
              ELSE /\ last'.ok
                   /\ last'.ret \notin DOMAIN old
                   /\ userDirs'[u] = Put(old, last'.ret, S)
                   /\ get_directory_size(userDirs', u) = used + S ]_vars

\* an upload was accepted that fills the directory to exactly the limit,
\* while the persisted storage_used still says 0
C1_Witness ==
    /\ last.kind = "upload_file"
    /\ last.ok
    /\ get_directory_size(userDirs, last.sess.username) = STORAGE_LIMIT_PER_USER
    /\ Stored.users[last.sess.username].storage_used = 0

\* owner or shared-with member of an existing folder record
Member(doc, username, folder_id) ==
    /\ folder_id \in DOMAIN doc.shared_folders
    /\ \/ doc.shared_folders[folder_id].owner = username
       \/ username \in doc.shared_folders[folder_id].shared_with

SharedFileHandlers ==
    {"view_shared_folder", "upload_to_shared", "download_shared_file",
     "delete_shared_file"}

\* C4: can_access_folder is true exactly for the owner and the shared-with
\* members of an existing folder record; a view, upload, download or
\* delete-file request by a logged-in user who is neither is answered by a
\* redirect to the folder list and leaves the shared tree and the store as
\* they were; and a shared directory's files change, or are sent, only in a
\* request by an owner or member of that folder.
C4_OnlyMembersTouchSharedFiles ==
    /\ [](\A u \in UserNames \cup {""}, f \in UrlFolderIds :
              can_access_folder(TheDisk, u, f).ret = Member(Stored, u, f))
    /\ [][ (/\ last'.kind \in SharedFileHandlers
            /\ last'.sess.has_username
            /\ ~Member(Stored, last'.sess.username, last'.folder)) =>
               /\ last'.page = Redirect("shared_folders")
               /\ last'.level = "error"
               /\ sharedDirs' = sharedDirs
               /\ dbFile' = dbFile
               /\ dbBackup' = dbBackup ]_vars
    /\ [][ \A f \in UrlFolderIds :
              (\/ last'.kind \in SharedFileHandlers /\ last'.folder = f
                  /\ last'.page.type = "send"
               \/ get_files_in_directory(sharedDirs', f)
                    # get_files_in_directory(sharedDirs, f)) =>
                 Member(Stored, last'.sess.username, f) ]_vars

\* a logged-in stranger's upload to an existing folder that holds a file was
\* turned away
C4_Witness ==
    /\ last.kind = "upload_to_shared"
    /\ last.sess.has_username
    /\ last.file.present
    /\ last.file.filename = "notes.txt"
    /\ last.folder \in DOMAIN Stored.shared_folders
    /\ ~Member(Stored, last.sess.username, last.folder)
    /\ get_files_in_directory(sharedDirs, last.folder) # {}

\* the session cookie of a login at time 0
SessionOf(u) == [has_username |-> TRUE, username |-> u, login_time |-> 0]

\* the flashed message and the response
Answer(out) == [level |-> out.level, msg |-> out.msg, page |-> out.page]

\* C5: for each of the five shared-folder handlers, a logged-in user who is
\* neither owner nor member of an existing folder gets the answer the same
\* request gets for a folder id that has no record.
C5_DenialSameAsNonexistent ==
    \A u \in UserNames :
      \A f \in DOMAIN Stored.shared_folders :
        \A g \in UrlFolderIds \ DOMAIN Stored.shared_folders :
          ~Member(Stored, u, f) =>
            LET w == World(TheDisk, userDirs, sharedDirs, SessionOf(u))
            IN  /\ Answer(view_shared_folder(w, f)) = Answer(view_shared_folder(w, g))
                /\ \A file \in SharedUploads :
                      Answer(upload_to_shared(w, f, file))
                        = Answer(upload_to_shared(w, g, file))
                /\ \A path \in UrlNames :
                      /\ Answer(download_shared_file(w, f, path))
                           = Answer(download_shared_file(w, g, path))
                      /\ Answer(delete_shared_file(w, f, path))
                           = Answer(delete_shared_file(w, g, path))
                /\ Answer(delete_folder(w, f, "copied"))
                     = Answer(delete_folder(w, g, "copied"))

\* C6: a delete-folder request by the folder's owner removes the folder's
\* record and its directory tree and touches no other folder, after which no
\* user can access that id; a delete-folder request by anyone else leaves
\* records and directories as they were; and an id whose folder was deleted
\* stays without record, directory and access in every later state.
C6_OnlyOwnerDeletesFolder ==
    /\ [][ (last'.kind = "delete_folder" /\ last'.sess.has_username) =>
             LET f == last'.folder
                 u == last'.sess.username
                 pre == Stored.shared_folders
                 post == StoredAfter.shared_folders
             IN  IF f \in DOMAIN pre /\ pre[f].owner = u
                 THEN /\ last'.ok
                      /\ post = Del(pre, f)
                      /\ StoredAfter.users = Stored.users
                      /\ f \notin DOMAIN sharedDirs'
                      /\ \A g \in DOMAIN sharedDirs' : g \in DOMAIN sharedDirs
                                                      /\ sharedDirs'[g] = sharedDirs[g]
                      /\ \A x \in UserNames :
                            ~can_access_folder(Disk(dbFile', dbBackup'), x, f).ret
                 ELSE /\ ~last'.ok
                      /\ dbFile' = dbFile
                      /\ sharedDirs' = sharedDirs ]_vars
    /\ [](\A f \in deleted :
            /\ f \notin DOMAIN Stored.shared_folders
            /\ f \notin DOMAIN sharedDirs
            /\ \A x \in UserNames : ~can_access_folder(TheDisk, x, f).ret)
    /\ [][ \A f \in DOMAIN Stored.shared_folders :
              f \notin DOMAIN StoredAfter.shared_folders =>
                 /\ last'.kind = "delete_folder"
                 /\ last'.sess.username = Stored.shared_folders[f].owner ]_vars

\* the former member asks for a folder its owner has deleted, and is refused
C6_Witness ==
    /\ last.kind = "view_shared_folder"
    /\ last.folder \in deleted
    /\ last.sess.has_username
    /\ last.sess.username = UserPool[2]
    /\ ~last.ok

\* the typed password matches the stored salt and hash of an existing record
CredentialsMatch(doc, username, password) ==
    /\ username \in DOMAIN doc.users
    /\ doc.users[username].password = Hash(doc.users[username].salt, password)

\* C7: the session username is set only by a login request whose password
\* verifies against the stored salt and hash of an existing user record, and
\* then to that user; a login for an unknown username and a login for a known
\* username with another password both get the message "Invalid username or
\* password." on the login page, and leave the session and the store as they
\* were.
C7_SessionOnlyByVerifiedLogin ==
    /\ [][ (session'.has_username /\ session' # session) =>
              /\ last'.kind = "login"
              /\ last'.method = "POST"
              /\ CredentialsMatch(Stored, strip(last'.user), last'.password)
              /\ session'.username = strip(last'.user) ]_vars
    /\ [][ (/\ last'.kind = "login"
            /\ last'.method = "POST"
            /\ ~session.has_username
            /\ strip(last'.user) # ""
            /\ last'.password # ""
            /\ ~CredentialsMatch(Stored, strip(last'.user), last'.password)) =>
               /\ last'.level = "error"
               /\ last'.msg = "Invalid username or password."
               /\ last'.page = Render("login.html")
               /\ session' = session
               /\ dbFile' = dbFile
               /\ dbBackup' = dbBackup
               /\ userDirs' = userDirs ]_vars

\* a login for a registered username with a password other than its own was refused
C7_Witness ==
    /\ last.kind = "login"
    /\ last.method = "POST"
    /\ strip(last.user) \in DOMAIN Stored.users
    /\ last.password = "longenough2"
    /\ ~last.ok
    /\ ~session.has_username

---------------------------------------------------------------------------
(* Two store calls of two worker processes, interleaved: each call is its   *)
(* load_db, then the rest of its body with its save_db.  No lock is taken.  *)

\* the id of a folder created before the two calls begin
OldFolderId == "e4e4"

\* alice has registered, logged in and created a folder shared with bob
RaceStart ==
    WorldOf(create_folder(LoggedIn(1), "Team", {UserPool[2]}, OldFolderId, 0, "copied"))

StartDoc == RaceStart.db.file.doc

RaceOps ==
    {[op |-> "create_user", user |-> u, folder |-> ""] : u \in UserNames}
    \cup {[op |-> o, user |-> UserPool[1], folder |-> ""] :
             o \in {"update_user_storage", "update_user_activity"}}
    \cup {[op |-> "create_shared_folder", user |-> UserPool[1], folder |-> f] :
             f \in FolderIds}
    \cup {[op |-> "delete_shared_folder", user |-> "", folder |-> OldFolderId]}

RaceUnchanged == UNCHANGED <<userDirs, sharedDirs, session, MAX_USERS, last,
                             issued, deleted>>

\* how many calls have written their document to the store file
Written == Cardinality({w \in Workers : wk[w].seq > 0})

\* data = load_db(db_file), the first statement of every store function; a
\* store file another call has opened for writing and not yet written is
\* empty, and load_db returns the empty document for it
RaceLoad(w) ==
    /\ wk[w].pc = "idle"
    /\ \E o \in RaceOps :
          LET l == load_db(TheDisk)
          IN  /\ SetDisk(l.db)
              /\ wk' = [wk EXCEPT ![w] = [Idle EXCEPT !.pc = "loaded", !.op = o.op,
                                            !.user = o.user, !.folder = o.folder,
                                            !.data = l.data, !.behind = Written]]
    /\ now' = now
    /\ RaceUnchanged

WorkingCopyReloaded(worker, db) == load_db(db).data

\* what the rest of the function works on: the document it loaded, however
\* the file has changed since
WorkingCopy(worker, db) == worker.data

\* the function has changed its copy of the document: it returns, or it
\* enters save_db, whose first statement is os.path.exists(db_file)
Decided(w, c, t, t2) ==
    /\ wk' = [wk EXCEPT ![w].pc = IF ~c.save THEN "done"
                                  ELSE IF dbFile.exists THEN "exists" ELSE "saving",
                        ![w].ok = c.ok, ![w].doc = c.data, ![w].t = t, ![w].t2 = t2]
    /\ now' = t2
    /\ UNCHANGED <<dbFile, dbBackup>>
    /\ RaceUnchanged

RaceCreateUser(w) ==
    /\ wk[w].pc = "loaded" /\ wk[w].op = "create_user"
    /\ \E r \in Readings :
          Decided(w, create_user_body(WorkingCopy(wk[w], TheDisk), wk[w].user,
                                      EmailOf(wk[w].user), "salt0",
                                      Hash("salt0", "longenough1"),
                                      STORAGE_LIMIT_PER_USER, r[1], r[2]),
                  r[1], r[2])

RaceUpdateUserStorage(w) ==
    /\ wk[w].pc = "loaded" /\ wk[w].op = "update_user_storage"
    /\ Decided(w, update_user_storage_body(WorkingCopy(wk[w], TheDisk), wk[w].user,
                                           HalfLimit),
               now, now)

RaceUpdateUserActivity(w) ==
    /\ wk[w].pc = "loaded" /\ wk[w].op = "update_user_activity"
    /\ \E t \in Reading :
          Decided(w, update_user_activity_body(WorkingCopy(wk[w], TheDisk), wk[w].user, t),
                  t, t)

RaceCreateSharedFolder(w) ==
    /\ wk[w].pc = "loaded" /\ wk[w].op = "create_shared_folder"
    /\ \E t \in Reading :
          Decided(w, create_shared_folder_body(WorkingCopy(wk[w], TheDisk), wk[w].folder,
                                               "Team", wk[w].user, {UserPool[2]}, t),
                  t, t)

RaceDeleteSharedFolder(w) ==
    /\ wk[w].pc = "loaded" /\ wk[w].op = "delete_shared_folder"
    /\ Decided(w, delete_shared_folder_body(WorkingCopy(wk[w], TheDisk), wk[w].folder),
               now, now)

\* save_db, lines 31-32: the store file is read for the backup; a read that
\* fails leaves the try block
RaceReadStore(w) ==
    /\ wk[w].pc = "exists"
    /\ LET backup_data == save_db_read(TheDisk, "copied")
       IN  wk' = [wk EXCEPT ![w].pc = IF backup_data.read THEN "read" ELSE "saving",
                           ![w].backup_data = backup_data]
    /\ UNCHANGED <<dbFile, dbBackup, now>>
    /\ RaceUnchanged

\* save_db, line 33: the backup file is opened for writing
RaceOpenBackup(w) ==
    /\ wk[w].pc = "read"
    /\ SetDisk(save_db_backup_open(TheDisk))
    /\ wk' = [wk EXCEPT ![w].pc = "backup"]
    /\ now' = now
    /\ RaceUnchanged

\* save_db, line 34: the backup file is written and closed
RaceWriteBackup(w) ==
    /\ wk[w].pc = "backup"
    /\ SetDisk(save_db_backup_write(TheDisk, wk[w].backup_data))
    /\ wk' = [wk EXCEPT ![w].pc = "saving"]
    /\ now' = now
    /\ RaceUnchanged

\* save_db, line 39: the store file is opened for writing
RaceOpen(w) ==
    /\ wk[w].pc = "saving"
    /\ SetDisk(save_db_open(TheDisk))
    /\ wk' = [wk EXCEPT ![w].pc = "open"]
    /\ now' = now
    /\ RaceUnchanged

\* save_db, line 40: the document is written and the file closed; the
\* function returns
RaceDump(w) ==
    /\ wk[w].pc = "open"
    /\ SetDisk(save_db_dump(TheDisk, wk[w].doc))
    /\ wk' = [wk EXCEPT ![w].pc = "done", ![w].seq = Written + 1]
    /\ now' = now
    /\ RaceUnchanged

InitRace == StartsAs(RaceStart)

NextRace ==
    \/ \E w \in Workers : RaceLoad(w)
    \/ \E w \in Workers : RaceCreateUser(w)
    \/ \E w \in Workers : RaceUpdateUserStorage(w)
    \/ \E w \in Workers : RaceUpdateUserActivity(w)
    \/ \E w \in Workers : RaceCreateSharedFolder(w)
    \/ \E w \in Workers : RaceDeleteSharedFolder(w)
    \/ \E w \in Workers : RaceReadStore(w)
    \/ \E w \in Workers : RaceOpenBackup(w)
    \/ \E w \in Workers : RaceWriteBackup(w)
    \/ \E w \in Workers : RaceOpen(w)
    \/ \E w \in Workers : RaceDump(w)

SpecRace == InitRace /\ [][NextRace]_vars

\* what a successful call changes in a document
Effect(c, doc) ==
    CASE c.op = "create_user" ->
           [doc EXCEPT !.users = Put(doc.users, c.user,
               UserRecord(EmailOf(c.user), "salt0", Hash("salt0", "longenough1"), c.t,
                          c.t2, STORAGE_LIMIT_PER_USER))]
      [] c.op = "update_user_storage" ->
           [doc EXCEPT !.users[c.user].storage_used = HalfLimit]
      [] c.op = "update_user_activity" ->
           [doc EXCEPT !.users[c.user].last_active = c.t]
      [] c.op = "create_shared_folder" ->
           [doc EXCEPT !.shared_folders = Put(doc.shared_folders, c.folder,
               FolderRecord("Team", c.user, {UserPool[2]}, c.t))]
      [] OTHER ->
           [doc EXCEPT !.shared_folders = Del(doc.shared_folders, c.folder)]

BothReturnedSuccess == \A w \in Workers : wk[w].pc = "done" /\ wk[w].ok
LaterWriter == CHOOSE w \in Workers : wk[w].seq = 2
EarlierWriter == CHOOSE w \in Workers : wk[w].seq = 1

\* C10: when two store calls have both returned success, a store file that
\* parses holds the document the later writer loaded with the later writer's
\* change applied to it, and a store file that does not parse is the later
\* writer's document written over a longer one.  If the later writer loaded
\* before the earlier one wrote, the document it loaded is the starting
\* document, or the empty document read while the earlier writer had the file
\* open, so the earlier writer's change is not in the file; if it loaded
\* after the earlier one wrote, the file holds the starting document with
\* both changes.
C10_LastWriterWins ==
    BothReturnedSuccess =>
        LET later == wk[LaterWriter]
            earlier == wk[EarlierWriter]
        IN  /\ dbFile \in {JsonFile(Effect(later, later.data)), GarbageFile}
            /\ dbFile = GarbageFile =>
                  json_len(later.doc) < json_len(earlier.doc)
            /\ later.behind = 0 =>
                  /\ later.data \in {StartDoc, EmptyDoc}
                  /\ Parses(dbFile) /\ later.data = StartDoc =>
                        dbFile.doc = Effect(later, StartDoc)
            /\ later.behind = 1 =>
                  dbFile = JsonFile(Effect(later, Effect(earlier, StartDoc)))

\* both calls returned success, and the user one of them registered is not in
\* the store
C10_Witness ==
    /\ BothReturnedSuccess
    /\ \E w \in Workers :
          /\ wk[w].op = "create_user"
          /\ wk[w].user \notin DOMAIN Stored.users

\* both calls returned success, and the folder one of them deleted has its
\* record in the store
C10_FolderIsBack ==
    /\ BothReturnedSuccess
    /\ \E w \in Workers :
          /\ wk[w].op = "delete_shared_folder"
          /\ wk[w].folder \in DOMAIN Stored.shared_folders

\* both calls returned success, and the store holds one account alone: the
\* later writer loaded while the earlier one had the file open
C10_StoreReplaced ==
    /\ BothReturnedSuccess
    /\ Parses(dbFile)
    /\ DOMAIN dbFile.doc.users = {UserPool[2]}
    /\ DOMAIN dbFile.doc.shared_folders = {}

\* both calls returned success, and the store file does not parse
C10_StoreUnparseable ==
    /\ BothReturnedSuccess
    /\ dbFile = GarbageFile

---------------------------------------------------------------------------
(* Shared-folder requests of two worker processes, overlapping.  A request  *)
(* is a sequence of steps, one for each statement of its handler that reads *)
(* or writes the store file or the shared tree; what the handler does with  *)
(* its own values in between belongs to the step before.  save_db is the    *)
(* five steps of the store calls above.  No lock is taken.  One scan of a   *)
(* directory is a single step; shutil.rmtree is its listing, one unlink for *)
(* each entry listed, and os.rmdir.  The store file is text, so load_db     *)
(* does not raise.                                                         *)

\* the file part and the URL file name the overlapping requests carry
OverlapUpload == Upload("notes.txt", 1)
OverlapPath == "notes.txt"

CheckedHandlers ==
    {"view_shared_folder", "upload_to_shared", "download_shared_file",
     "delete_shared_file"}

OverlapUnchanged == UNCHANGED <<userDirs, session, now, MAX_USERS, deleted>>

\* the state a request of user u runs in
WorldFor(u) == World(TheDisk, userDirs, sharedDirs, SessionOf(u))

\* the response goes out; the session cookie of the request is not the model's
Responds(w, out) ==
    /\ wk' = [wk EXCEPT ![w] = Idle]
    /\ last' = Served(wk[w].op, "", SessionOf(wk[w].user), wk[w].user, wk[w].folder,
                      "", "", out)

\* a response of the request in flight: flash, page and rendered values
Replies(w, level, msg, page, ret) ==
    Responds(w, Outcome(TheDisk, userDirs, sharedDirs, SessionOf(wk[w].user),
                        level, msg, page, ret))

\* the request goes on to its next statement
Goes(w, pc) ==
    /\ wk' = [wk EXCEPT ![w].pc = pc]
    /\ UNCHANGED last

At(w, op, pc) == wk[w].op = op /\ wk[w].pc = pc

\* create_folder, lines 256-269, and create_shared_folder up to its save_db:
\* the id is drawn, the store is loaded and the record added to the copy
OverlapCreateFolder(w) ==
    /\ wk[w].pc = "idle"
    /\ \E f \in FolderIds \ issued :
          LET l == load_db(TheDisk)
              c == create_shared_folder_body(l.data, f, "Team", UserPool[1],
                                             {UserPool[2]}, now)
          IN  /\ SetDisk(l.db)
              /\ wk' = [wk EXCEPT ![w] =
                          [Idle EXCEPT !.pc = IF l.db.file.exists THEN "exists"
                                             ELSE "saving",
                                       !.op = "create_folder", !.user = UserPool[1],
                                       !.folder = f, !.data = l.data, !.doc = c.data,
                                       !.ok = c.ok]]
              /\ issued' = issued \cup {f}
    /\ UNCHANGED <<sharedDirs, last>>
    /\ OverlapUnchanged

\* create_folder, lines 270-273, after create_shared_folder returned
FinishCreateFolder(w) ==
    /\ At(w, "create_folder", "done")
    /\ sharedDirs' = get_shared_folder_path(sharedDirs, wk[w].folder)
    /\ Replies(w, "success", "Shared folder created successfully!",
              RedirectFolder(wk[w].folder), wk[w].folder)
    /\ UNCHANGED <<dbFile, dbBackup, issued>>
    /\ OverlapUnchanged

\* lines 280-282, 303-305, 342-344, 365-367: the access check; the checks of
\* the file part (307-319) pass for the file the upload carries
BeginChecked(w) ==
    /\ wk[w].pc = "idle"
    /\ \E op \in CheckedHandlers, u \in Requesters, f \in issued :
          LET c == can_access_folder(TheDisk, u, f)
              asked == [Idle EXCEPT !.op = op, !.user = u, !.folder = f]
          IN  /\ SetDisk(c.db)
              /\ IF c.ret
                 THEN /\ wk' = [wk EXCEPT ![w] = [asked EXCEPT !.pc = "granted"]]
                      /\ UNCHANGED last
                 ELSE /\ UNCHANGED wk
                      /\ last' = Served(op, "", SessionOf(u), u, f, "", "",
                                        AccessDenied(WorldFor(u), c.db))
    /\ UNCHANGED <<sharedDirs, issued>>
    /\ OverlapUnchanged

\* lines 385-393: the record fetch and the owner test of delete_folder
BeginDeleteFolder(w) ==
    /\ wk[w].pc = "idle"
    /\ \E u \in Requesters, f \in issued :
          LET g == get_shared_folder(TheDisk, f)
              asked == [Idle EXCEPT !.op = "delete_folder", !.user = u, !.folder = f,
                                    !.info = g.ret]
          IN  /\ SetDisk(g.db)
              /\ IF g.ret.some /\ delete_folder_may(g.ret.value, u)
                 THEN /\ wk' = [wk EXCEPT ![w] = [asked EXCEPT !.pc = "granted"]]
                      /\ UNCHANGED last
                 ELSE /\ UNCHANGED wk
                      /\ last' = Served("delete_folder", "POST", SessionOf(u), u, f, "", "",
                                        delete_folder(WorldFor(u), f, "copied"))
    /\ UNCHANGED <<sharedDirs, issued>>
    /\ OverlapUnchanged

AccountUnchanged == UNCHANGED <<issued, session, now, MAX_USERS, deleted>>

\* account, lines 409-410: get_user reads the store
OverlapAccount(w) ==
    /\ wk[w].pc = "idle"
    /\ \E u \in Requesters :
          LET g == get_user(TheDisk, u)
          IN  /\ SetDisk(g.db)
              /\ wk' = [wk EXCEPT ![w] = [Idle EXCEPT !.pc = "user", !.op = "account",
                                                      !.user = u, !.info = g.ret]]
    /\ UNCHANGED <<userDirs, sharedDirs, last>>
    /\ AccountUnchanged

\* account, line 411: get_user_storage_path makes the user's directory if it
\* is not there
AccountMakeDir(w) ==
    /\ At(w, "account", "user")
    /\ LET p == get_user_storage_path(userDirs, sharedDirs, wk[w].user)
       IN  /\ userDirs' = p.udirs
           /\ sharedDirs' = p.sdirs
    /\ Goes(w, "path")
    /\ UNCHANGED <<dbFile, dbBackup>>
    /\ AccountUnchanged

\* account, line 413: get_directory_size scans the directory
AccountSize(w) ==
    /\ At(w, "account", "path")
    /\ LET at == user_path(wk[w].user)
       IN  wk' = [wk EXCEPT ![w].pc = "sized",
                           ![w].size = get_directory_size(
                                           tree_at(userDirs, sharedDirs, at), at.dir)]
    /\ UNCHANGED <<dbFile, dbBackup, userDirs, sharedDirs, last>>
    /\ AccountUnchanged

\* account, line 414: get_files_in_directory lists the directory
AccountCount(w) ==
    /\ At(w, "account", "sized")
    /\ LET at == user_path(wk[w].user)
       IN  wk' = [wk EXCEPT ![w].pc = "counted",
                           ![w].file_count = Cardinality(get_files_in_directory(
                                                 tree_at(userDirs, sharedDirs, at), at.dir))]
    /\ UNCHANGED <<dbFile, dbBackup, userDirs, sharedDirs, last>>
    /\ AccountUnchanged

\* account, lines 416-422: the page from the record fetched at line 410;
\* user['email'] of None raises TypeError
FinishAccount(w) ==
    /\ At(w, "account", "counted")
    /\ LET user == wk[w].info
       IN  IF ~user.some
           THEN Responds(w, Raised(TheDisk, userDirs, sharedDirs, SessionOf(wk[w].user),
                                   "TypeError"))
           ELSE Replies(w, "", "", Render("account.html"),
                        [email |-> user.value.email,
                         created_at |-> user.value.created_at,
                         storage_used |-> wk[w].size,
                         file_count |-> wk[w].file_count])
    /\ UNCHANGED <<dbFile, dbBackup, userDirs, sharedDirs>>
    /\ AccountUnchanged

\* view_shared_folder, line 284: the record is fetched again
ViewGetFolder(w) ==
    /\ At(w, "view_shared_folder", "granted")
    /\ LET g == get_shared_folder(TheDisk, wk[w].folder)
       IN  /\ SetDisk(g.db)
           /\ wk' = [wk EXCEPT ![w].pc = "fetched", ![w].info = g.ret]
    /\ UNCHANGED <<sharedDirs, last, issued>>
    /\ OverlapUnchanged

\* get_shared_folder_path, lines 285, 322, 346, 369 and 396: the directory of
\* the folder id is made if it is not there
OverlapMakeDir(w) ==
    /\ \/ At(w, "view_shared_folder", "fetched")
       \/ /\ wk[w].op \in {"upload_to_shared", "download_shared_file",
                           "delete_shared_file", "delete_folder"}
          /\ wk[w].pc = "granted"
    /\ sharedDirs' = get_shared_folder_path(sharedDirs, wk[w].folder)
    /\ Goes(w, "path")
    /\ UNCHANGED <<dbFile, dbBackup, issued>>
    /\ OverlapUnchanged

\* view_shared_folder, lines 286-296: the listing, and the page from the
\* record fetched at line 284; folder_info['name'] of None raises TypeError
FinishView(w) ==
    /\ At(w, "view_shared_folder", "path")
    /\ LET folder_info == wk[w].info.value
       IN  IF ~wk[w].info.some
           THEN Responds(w, Raised(TheDisk, userDirs, sharedDirs, SessionOf(wk[w].user),
                                   "TypeError"))
           ELSE Replies(w, "", "", Render("shared_folder.html"),
                       [folder_name |-> folder_info.name,
                        is_owner |-> (folder_info.owner = wk[w].user),
                        owner |-> folder_info.owner,
                        shared_with |-> folder_info.shared_with,
                        files |-> get_files_in_directory(sharedDirs, wk[w].folder)])
    /\ UNCHANGED <<dbFile, dbBackup, sharedDirs, issued>>
    /\ OverlapUnchanged

\* upload_to_shared, lines 323-330: one os.path.exists of the loop, for the
\* candidate name of the counter the request has reached
SharedTryName(w) ==
    /\ At(w, "upload_to_shared", "path")
    /\ IF path_exists(sharedDirs, wk[w].folder,
                      safe_filename(OverlapUpload.filename, wk[w].counter))
       THEN /\ wk[w].counter < MaxFiles
            /\ wk' = [wk EXCEPT ![w].counter = @ + 1]
       ELSE wk' = [wk EXCEPT ![w].pc = "named"]
    /\ UNCHANGED <<dbFile, dbBackup, sharedDirs, last, issued>>
    /\ OverlapUnchanged

\* upload_to_shared, line 332: file.save writes the path the loop ended with,
\* whatever is there by now; without the directory it raises
SharedSave(w) ==
    /\ At(w, "upload_to_shared", "named")
    /\ IF wk[w].folder \notin DOMAIN sharedDirs
       THEN /\ Responds(w, Raised(TheDisk, userDirs, sharedDirs, SessionOf(wk[w].user),
                                  "FileNotFoundError"))
            /\ UNCHANGED sharedDirs
       ELSE LET saved == file_save(sharedDirs, wk[w].folder,
                                   safe_filename(OverlapUpload.filename, wk[w].counter),
                                   OverlapUpload.size)
            IN  /\ FileCount(saved) <= MaxFiles
                /\ sharedDirs' = saved
                /\ Goes(w, "saved")
    /\ UNCHANGED <<dbFile, dbBackup, issued>>
    /\ OverlapUnchanged

\* upload_to_shared, lines 333-335: os.path.getsize of the file written
FinishUploadToShared(w) ==
    /\ At(w, "upload_to_shared", "saved")
    /\ LET filename == safe_filename(OverlapUpload.filename, wk[w].counter)
       IN  IF ~path_exists(sharedDirs, wk[w].folder, filename)
           THEN Responds(w, Raised(TheDisk, userDirs, sharedDirs, SessionOf(wk[w].user),
                                   "FileNotFoundError"))
           ELSE Replies(w, "success", "File uploaded to shared folder!",
                       RedirectFolder(wk[w].folder), filename)
    /\ UNCHANGED <<dbFile, dbBackup, sharedDirs, issued>>
    /\ OverlapUnchanged

\* download_shared_file, lines 347-351, and delete_shared_file, lines 370-375:
\* the os.path.exists test
OverlapExists(w) ==
    /\ wk[w].op \in {"download_shared_file", "delete_shared_file"}
    /\ wk[w].pc = "path"
    /\ IF path_exists(sharedDirs, wk[w].folder, basename(OverlapPath))
       THEN Goes(w, "found")
       ELSE Replies(w, "error", "File not found.", RedirectFolder(wk[w].folder), 0)
    /\ UNCHANGED <<dbFile, dbBackup, sharedDirs, issued>>
    /\ OverlapUnchanged

\* download_shared_file, lines 353-358: send_from_directory, and the except
\* branch when the file is not there (or is not a regular file)
FinishDownloadShared(w) ==
    /\ At(w, "download_shared_file", "found")
    /\ LET f == wk[w].folder
           filename == basename(OverlapPath)
       IN  IF f \in DOMAIN sharedDirs /\ filename \in DOMAIN sharedDirs[f]
           THEN Replies(w, "", "", SendFile(filename), sharedDirs[f][filename])
           ELSE Replies(w, "error", "Error downloading file.", RedirectFolder(f), 0)
    /\ UNCHANGED <<dbFile, dbBackup, sharedDirs, issued>>
    /\ OverlapUnchanged

\* delete_shared_file, lines 377-379: os.remove raises when the file is gone
FinishDeleteShared(w) ==
    /\ At(w, "delete_shared_file", "found")
    /\ LET f == wk[w].folder
           filename == basename(OverlapPath)
       IN  IF ~path_exists(sharedDirs, f, filename)
           THEN /\ Responds(w, Raised(TheDisk, userDirs, sharedDirs,
                                      SessionOf(wk[w].user), "FileNotFoundError"))
                /\ UNCHANGED sharedDirs
           ELSE /\ sharedDirs' = os_remove(sharedDirs, f, filename)
                /\ Replies(w, "success", "File deleted from shared folder.",
                          RedirectFolder(f), filename)
    /\ UNCHANGED <<dbFile, dbBackup, issued>>
    /\ OverlapUnchanged

\* delete_folder, line 397: os.path.exists(folder_path)
DeleteFolderExists(w) ==
    /\ At(w, "delete_folder", "path")
    /\ Goes(w, IF wk[w].folder \in DOMAIN sharedDirs THEN "found" ELSE "removed")
    /\ UNCHANGED <<dbFile, dbBackup, sharedDirs, issued>>
    /\ OverlapUnchanged

\* delete_folder, line 398: shutil.rmtree opens the directory and lists its
\* entries; it raises when the directory is gone.  No error handler is
\* passed, so every error of rmtree leaves the handler.
DeleteFolderTree(w) ==
    /\ At(w, "delete_folder", "found")
    /\ IF wk[w].folder \notin DOMAIN sharedDirs
       THEN Responds(w, Raised(TheDisk, userDirs, sharedDirs, SessionOf(wk[w].user),
                               "FileNotFoundError"))
       ELSE /\ wk' = [wk EXCEPT ![w].pc = "listed",
                                ![w].names = DOMAIN sharedDirs[wk[w].folder]]
            /\ UNCHANGED last
    /\ UNCHANGED <<dbFile, dbBackup, sharedDirs, issued>>
    /\ OverlapUnchanged

\* delete_folder, line 398: shutil.rmtree unlinks one of the entries it
\* listed, in the order the directory gave them; it raises when the entry is
\* gone, and leaves what it has not removed
DeleteFolderUnlink(w) ==
    /\ At(w, "delete_folder", "listed")
    /\ \E n \in wk[w].names :
          IF ~path_exists(sharedDirs, wk[w].folder, n)
          THEN /\ Responds(w, Raised(TheDisk, userDirs, sharedDirs,
                                     SessionOf(wk[w].user), "FileNotFoundError"))
               /\ UNCHANGED sharedDirs
          ELSE /\ sharedDirs' = os_remove(sharedDirs, wk[w].folder, n)
               /\ wk' = [wk EXCEPT ![w].names = @ \ {n}]
               /\ UNCHANGED last
    /\ UNCHANGED <<dbFile, dbBackup, issued>>
    /\ OverlapUnchanged

\* delete_folder, line 398: shutil.rmtree has unlinked the entries it listed
\* and removes the directory; os.rmdir raises when the directory is gone and
\* when a file has been saved into it since the listing
DeleteFolderRmdir(w) ==
    /\ At(w, "delete_folder", "listed")
    /\ wk[w].names = {}
    /\ IF wk[w].folder \notin DOMAIN sharedDirs
       THEN /\ Responds(w, Raised(TheDisk, userDirs, sharedDirs, SessionOf(wk[w].user),
                                  "FileNotFoundError"))
            /\ UNCHANGED sharedDirs
       ELSE IF DOMAIN sharedDirs[wk[w].folder] # {}
       THEN /\ Responds(w, Raised(TheDisk, userDirs, sharedDirs, SessionOf(wk[w].user),
                                  "OSError"))
            /\ UNCHANGED sharedDirs
       ELSE /\ sharedDirs' = Del(sharedDirs, wk[w].folder)
            /\ Goes(w, "removed")
    /\ UNCHANGED <<dbFile, dbBackup, issued>>
    /\ OverlapUnchanged

\* delete_folder, line 401: delete_shared_folder up to its save_db, which it
\* enters when the copy it loaded holds the record
DeleteFolderRecord(w) ==
    /\ At(w, "delete_folder", "removed")
    /\ LET l == load_db(TheDisk)
           c == delete_shared_folder_body(l.data, wk[w].folder)
       IN  /\ SetDisk(l.db)
           /\ wk' = [wk EXCEPT ![w].pc = IF ~c.save THEN "done"
                                         ELSE IF l.db.file.exists THEN "exists"
                                         ELSE "saving",
                               ![w].data = l.data, ![w].doc = c.data, ![w].ok = c.ok]
    /\ UNCHANGED <<sharedDirs, last, issued>>
    /\ OverlapUnchanged

\* delete_folder, lines 403-404, after delete_shared_folder returned
FinishDeleteFolder(w) ==
    /\ At(w, "delete_folder", "done")
    /\ Replies(w, "success", "Shared folder deleted successfully.",
              Redirect("shared_folders"), wk[w].info.value.name)
    /\ UNCHANGED <<dbFile, dbBackup, sharedDirs, issued>>
    /\ OverlapUnchanged

\* every name of UserNames has registered; no folder has been created, so no
\* record and no directory exists
InitOverlap == StartsAs(Registered(NumUsers))

NextOverlap ==
    \/ \E w \in Workers : OverlapCreateFolder(w)
    \/ \E w \in Workers : FinishCreateFolder(w)
    \/ \E w \in Workers : OverlapAccount(w)
    \/ \E w \in Workers : AccountMakeDir(w)
    \/ \E w \in Workers : AccountSize(w)
    \/ \E w \in Workers : AccountCount(w)
    \/ \E w \in Workers : FinishAccount(w)
    \/ \E w \in Workers : BeginChecked(w)
    \/ \E w \in Workers : BeginDeleteFolder(w)
    \/ \E w \in Workers : ViewGetFolder(w)
    \/ \E w \in Workers : OverlapMakeDir(w)
    \/ \E w \in Workers : FinishView(w)
    \/ \E w \in Workers : SharedTryName(w)
    \/ \E w \in Workers : SharedSave(w)
    \/ \E w \in Workers : FinishUploadToShared(w)
    \/ \E w \in Workers : OverlapExists(w)
    \/ \E w \in Workers : FinishDownloadShared(w)
    \/ \E w \in Workers : FinishDeleteShared(w)
    \/ \E w \in Workers : DeleteFolderExists(w)
    \/ \E w \in Workers : DeleteFolderTree(w)
    \/ \E w \in Workers : DeleteFolderUnlink(w)
    \/ \E w \in Workers : DeleteFolderRmdir(w)
    \/ \E w \in Workers : DeleteFolderRecord(w)
    \/ \E w \in Workers : FinishDeleteFolder(w)
    \/ \E w \in Workers : RaceReadStore(w)
    \/ \E w \in Workers : RaceOpenBackup(w)
    \/ \E w \in Workers : RaceWriteBackup(w)
    \/ \E w \in Workers : RaceOpen(w)
    \/ \E w \in Workers : RaceDump(w)

SpecOverlap == InitOverlap /\ [][NextOverlap]_vars

NoRequestInFlight == \A w \in Workers : wk[w].pc = "idle"

\* C11: whenever no request is in flight, the folder ids that have a
\* directory under the shared root are exactly the folder ids that have a
\* metadata record in the store.
C11_DirectoryIffRecord ==
    NoRequestInFlight => Directories(sharedDirs) = DOMAIN Stored.shared_folders

\* no request is in flight, and a file uploaded through upload_to_shared lies
\* in the directory of a folder id that has no record
C11_FileWithoutRecord ==
    /\ NoRequestInFlight
    /\ \E f \in DOMAIN sharedDirs :
          /\ f \notin DOMAIN Stored.shared_folders
          /\ DOMAIN sharedDirs[f] # {}

---------------------------------------------------------------------------
(* Personal-storage requests of one user handled by two worker processes,   *)
(* overlapping: an upload is its checks up to the quota test, then one step *)
(* for each os.path.exists of the duplicate-avoidance loop, then file.save; *)
(* a delete is its existence check, then os.remove.  The user's directory   *)
(* exists and the store does not change, so the statements up to the quota  *)
(* test see what one step sees.                                             *)

\* sizes of which one fits the empty directory and two do not fit together
BigSizes == {HalfLimit, HalfLimit + 1}
BigUploads == {NoUpload} \cup {Upload(n, sz) : n \in UploadNames, sz \in BigSizes}

StorageUnchanged == UNCHANGED <<sharedDirs, session, now, MAX_USERS, issued, deleted>>

\* the response of a personal-storage request goes out
StorageResponds(w, kind, file, out) ==
    /\ SetDisk(out.db)
    /\ userDirs' = out.udirs
    /\ wk' = [wk EXCEPT ![w] = Idle]
    /\ last' = Served(kind, "POST", session, session.username, "", file, "", out)
    /\ StorageUnchanged

\* upload_file, lines 156-183
BeginUpload(w) ==
    /\ wk[w].pc = "idle"
    /\ \E file \in BigUploads :
          LET out == upload_file(TheWorld, file)
              p == get_user_storage_path(userDirs, sharedDirs, session.username)
          IN  IF upload_file_admits(TheWorld, file)
              THEN /\ userDirs' = p.udirs
                   /\ wk' = [wk EXCEPT ![w] = [Idle EXCEPT !.pc = "admitted",
                                                 !.op = "upload_file",
                                                 !.user = session.username,
                                                 !.size = file.size]]
                   /\ UNCHANGED <<dbFile, dbBackup, last>>
                   /\ StorageUnchanged
              ELSE StorageResponds(w, "upload_file", file, out)

\* upload_file, lines 185-192: one os.path.exists of the loop, for the
\* candidate name of the counter the request has reached
UploadTryName(w) ==
    /\ wk[w].pc = "admitted"
    /\ LET at == user_path(session.username)
       IN  IF path_exists(tree_at(userDirs, sharedDirs, at), at.dir,
                          safe_filename("notes.txt", wk[w].counter))
           THEN /\ wk[w].counter < MaxFiles
                /\ wk' = [wk EXCEPT ![w].counter = @ + 1]
           ELSE wk' = [wk EXCEPT ![w].pc = "named"]
    /\ UNCHANGED <<dbFile, dbBackup, userDirs, last>>
    /\ StorageUnchanged

\* upload_file, lines 196-198: file.save writes the path the loop ended
\* with, whatever is there by now
FinishUpload(w) ==
    /\ wk[w].pc = "named"
    /\ LET file == Upload("notes.txt", wk[w].size)
           at == user_path(session.username)
           filename == safe_filename(file.filename, wk[w].counter)
           saved == file_save(tree_at(userDirs, sharedDirs, at), at.dir, filename,
                              file.size)
           out == Outcome(TheDisk, user_tree(userDirs, at, saved),
                          shared_tree(sharedDirs, at, saved), session,
                          "success", "File uploaded successfully!",
                          Redirect("storage"), filename)
       IN  /\ FileCount(out.udirs) <= MaxFiles
           /\ StorageResponds(w, "upload_file", file, out)

\* delete_file, lines 220-228
BeginDelete(w) ==
    /\ wk[w].pc = "idle"
    /\ LET p == get_user_storage_path(userDirs, sharedDirs, session.username)
       IN  IF path_exists(tree_at(p.udirs, p.sdirs, p), p.dir, basename(OverlapPath))
           THEN /\ userDirs' = p.udirs
                /\ wk' = [wk EXCEPT ![w] = [Idle EXCEPT !.pc = "found",
                                              !.op = "delete_file",
                                              !.user = session.username]]
                /\ UNCHANGED <<dbFile, dbBackup, last>>
                /\ StorageUnchanged
           ELSE StorageResponds(w, "delete_file", OverlapPath,
                                delete_file(TheWorld, OverlapPath))

\* delete_file, lines 230-232
FinishDelete(w) ==
    /\ wk[w].pc = "found"
    /\ StorageResponds(w, "delete_file", OverlapPath,
                       delete_file_found(TheWorld, OverlapPath))

\* alice has registered and logged in; her directory is empty
InitStorageOverlap == StartsAs(LoggedIn(1))

NextStorageOverlap ==
    \/ \E w \in Workers : BeginUpload(w)
    \/ \E w \in Workers : UploadTryName(w)
    \/ \E w \in Workers : FinishUpload(w)
    \/ \E w \in Workers : BeginDelete(w)
    \/ \E w \in Workers : FinishDelete(w)

SpecStorageOverlap == InitStorageOverlap /\ [][NextStorageOverlap]_vars

\* C12: in every state the files in a user's storage directory add up to no
\* more than STORAGE_LIMIT_PER_USER.
C12_DirectoryWithinLimit ==
    \A u \in UserNames : get_directory_size(userDirs, u) <= STORAGE_LIMIT_PER_USER

---------------------------------------------------------------------------
(* Usernames as path components: register, login, storage and logout, one   *)
(* request at a time, with usernames a client is free to type              *)

\* usernames that are a plain name, and usernames of three characters or
\* more that hold a path separator
NamedRegister ==
    \E u \in TypedNames, r \in Readings :
        LET out == register(TheWorld, "POST", u, EmailOf(u), "longenough1", "longenough1",
                            "salt0", r[1], r[2], "copied")
        IN  /\ Becomes(out)
            /\ last' = Served("register", "POST", session, u, "", "", "longenough1", out)
            /\ now' = IF out.level = "success" THEN r[2] ELSE now
            /\ ClockHandlerUnchanged

NamedLogin ==
    \E u \in TypedNames, r \in Readings :
        LET out == login(TheWorld, "POST", u, "longenough1", r[1], r[2], "copied")
        IN  /\ Becomes(out)
            /\ last' = Served("login", "POST", session, u, "", "", "longenough1", out)
            /\ now' = IF out.level = "success" THEN r[2] ELSE now
            /\ ClockHandlerUnchanged

InitNames == InitAuth

NextNames ==
    \/ NamedRegister
    \/ NamedLogin
    \/ GetStorage
    \/ GetLogout

SpecNames == InitNames /\ [][NextNames]_vars

DirectChildOfUploadRoot(p) ==
    /\ WithinOrEqual(p, UPLOAD_FOLDER)
    /\ Len(p.segs) = Len(UPLOAD_FOLDER.segs) + 1

\* C13: every username in the store, and the session username, has as its
\* storage root a direct child directory of the upload root, and no user's
\* storage root is another user's root or inside it.
C13_StorageRootsAreSeparateChildren ==
    LET names == DOMAIN Stored.users
                 \cup (IF session.has_username THEN {session.username} ELSE {})
    IN  \A u \in names :
          /\ DirectChildOfUploadRoot(user_storage_root(u))
          /\ \A v \in names \ {u} :
                ~WithinOrEqual(user_storage_root(u), user_storage_root(v))

\* a logged-in user whose storage page was served from a directory outside
\* the upload root
C13_StorageOutsideUploadRoot ==
    /\ last.kind = "storage" /\ last.ok
    /\ ~WithinOrEqual(user_storage_root(last.user), UPLOAD_FOLDER)

\* two users are registered and the storage root of one is the other's root
C13_SharedStorageRoot ==
    \E u, v \in DOMAIN Stored.users :
        u # v /\ user_storage_root(u) = user_storage_root(v)

---------------------------------------------------------------------------
(* Uploads and deletions in a personal directory and in a shared folder,    *)
(* one request at a time                                                    *)

\* alice has registered, logged in and created a folder shared with bob
UploadsStart ==
    WorldOf(create_folder(LoggedIn(1), "Team", {UserPool[2]}, FolderIdPool[1], 0, "copied"))

InitUploads == StartsAs(UploadsStart)

NextUploads ==
    \/ PostUpload
    \/ PostDelete
    \/ PostUploadToShared
    \/ PostDeleteShared

SpecUploads == InitUploads /\ [][NextUploads]_vars

\* the directory an upload request that stored a file wrote into, before and
\* after the request
UploadTarget ==
    IF last'.kind = "upload_file"
    THEN [before |-> get_user_storage_path(userDirs, sharedDirs, last'.user).udirs[last'.user],
          after |-> userDirs'[last'.user]]
    ELSE [before |-> get_shared_folder_path(sharedDirs, last'.folder)[last'.folder],
          after |-> sharedDirs'[last'.folder]]

\* C14: for every upload request (personal or shared) that stores a file,
\* the naming loop looks at no more than n + 1 candidate names, n being the
\* number of entries the directory held; the name it writes was not in the
\* directory; and every file the directory held is still there with its
\* size, the new file being the only addition.
C14_UploadOverwritesNothing ==
    [][(last'.kind \in {"upload_file", "upload_to_shared"} /\ last'.ok) =>
          LET dir == UploadTarget.before
              n == Cardinality(DOMAIN dir)
          IN  /\ candidates_tried([d \in {"d"} |-> dir], "d", last'.file.filename, 0)
                     <= n + 1
              /\ last'.ret \notin DOMAIN dir
              /\ DOMAIN UploadTarget.after = DOMAIN dir \cup {last'.ret}
              /\ \A f \in DOMAIN dir : UploadTarget.after[f] = dir[f]
              /\ UploadTarget.after[last'.ret] = last'.file.size]_vars

\* uploads to a shared folder and to a personal directory have each been
\* stored under a numbered name: the last one served went to a directory that
\* holds the plain name too, and the other directory holds a numbered name
C14_Witness ==
    /\ last.kind \in {"upload_file", "upload_to_shared"} /\ last.ok
    /\ last.ret = NumberedNames[1]
    /\ \E d \in DOMAIN userDirs : {"notes.txt", NumberedNames[1]} \subseteq DOMAIN userDirs[d]
    /\ \E d \in DOMAIN sharedDirs :
          {"notes.txt", NumberedNames[1]} \subseteq DOMAIN sharedDirs[d]

---------------------------------------------------------------------------
\* C15: every request to a logged-in handler ends with a rendered page, a
\* file or a redirect; none ends in an exception that no handler catches.
C15_NoUnhandledError == last.page.type # "error"

\* a view_shared_folder request of a user who passed the access check ended
\* in an unhandled TypeError
C15_ViewRaised ==
    /\ last.kind = "view_shared_folder"
    /\ last.page = InternalServerError("TypeError")

=============================================================================
